---- MODULE Spec2Model ----
(***************************************************************************)
(* A model of the ArXiv Tab Enhancer extension: the background manager's   *)
(* author grouping (background.js), the content script's author selection  *)
(* (content script, getPreferredAuthor / isAuthorMatch / getPaperData) and *)
(* the background's two-tier paper cache.                                  *)
(*                                                                         *)
(* The specifications share the module's variables:                        *)
(*   Spec         the grouping handlers, interleaved at every await with   *)
(*                the browser's tab and tab-group surface;                 *)
(*   SeqSpec      the same handlers, each ending before the next starts;   *)
(*   SelSpec      getPreferredAuthor on an author list and a liked list;   *)
(*   ExtractSpec  getPaperData on an abstract page and on a PDF page;      *)
(*   CacheSpec    getCachedData / cacheData / cleanupCache over the memory *)
(*                map and chrome.storage.local;                            *)
(*   EvictSpec    cacheData of one document after the other, up to the     *)
(*                memory map's limit and past it;                          *)
(*   TierSpec     the content script's page loads and the background's     *)
(*                cache over the one chrome.storage.local;                 *)
(*   NavSpec      the grouping handlers of Spec while tabs navigate;       *)
(*   RetrySpec    PDF page loads of one document in one tab, each title    *)
(*                update handled by the background before the next;       *)
(*   TitleSpec    the content script's updateTabTitle composing the tab    *)
(*                title from a title, a first author and a category;       *)
(*   HelperSpec   the pure helpers called on names: getShortAuthorName,    *)
(*                parseAuthors, isAuthorMatch, generateAuthorColor;        *)
(*   ColorSpec    the grouping handlers started by a message of the        *)
(*                content script and by handleTabUpdate;                   *)
(*   PopupSpec    the popup's liked-author list over chrome.storage.local; *)
(*   RaceSpec     the grouping handlers of one author, interleaved, every  *)
(*                handler in progress taking its steps;                    *)
(*   PromoteSpec  cacheData up to the memory map's limit, then reads of    *)
(*                documents held in chrome.storage.local only;             *)
(*   CachedTitleSpec  the tab title of the content script beside the one   *)
(*                handleTabUpdate makes from the cached record;            *)
(*   HashSpec     the hash loop of generateAuthorColor, one code unit at   *)
(*                a time;                                                  *)
(*   ClearSpec    the popup's Clear Cache beside the page loads that fill  *)
(*                the cache;                                               *)
(*   WatchSpec    the document's title under the interval watcher and the  *)
(*                mutation observers of the content script.                *)
(***************************************************************************)
EXTENDS Integers, Sequences, FiniteSets, Bags, TLC

(***************************************************************************)
(* Bounds of the grouping model.                                           *)
(***************************************************************************)
NTabs == 2
\* handler invocations per run, when they may interleave (Spec)
MaxOps == 3
\* handler invocations in flight together (Spec)
MaxInFlight == 2
\* handler invocations per run, when each ends before the next starts (SeqSpec)
SeqOps == 4

(***************************************************************************)
(* Text.  A name in the state is a TLA+ string; Chars gives the sequence   *)
(* of its characters, on which the string functions of the code compute.   *)
(***************************************************************************)
AliceJohnson == "Alice Johnson"
BobSmith == "Bob Smith"
CarolDavis == "Carol Davis"
JSmith == "J. Smith"
Smith == "Smith"
Johnson == "Johnson"
SmithJ == "Smith, J."
JohnSmith == "John Smith"
DAVIS == "DAVIS"
Lee == "Lee"
SmithDot == "Smith ."
Dot == "."

Chars ==
  SmithDot :> <<"S", "m", "i", "t", "h", " ", ".">> @@
  AliceJohnson :> <<"A", "l", "i", "c", "e", " ", "J", "o", "h", "n", "s", "o", "n">> @@
  BobSmith :> <<"B", "o", "b", " ", "S", "m", "i", "t", "h">> @@
  CarolDavis :> <<"C", "a", "r", "o", "l", " ", "D", "a", "v", "i", "s">> @@
  JSmith :> <<"J", ".", " ", "S", "m", "i", "t", "h">> @@
  Smith :> <<"S", "m", "i", "t", "h">> @@
  Johnson :> <<"J", "o", "h", "n", "s", "o", "n">> @@
  SmithJ :> <<"S", "m", "i", "t", "h", ",", " ", "J", ".">> @@
  JohnSmith :> <<"J", "o", "h", "n", " ", "S", "m", "i", "t", "h">> @@
  DAVIS :> <<"D", "A", "V", "I", "S">> @@
  Lee :> <<"L", "e", "e">> @@
  Dot :> <<".">> @@
  "" :> <<>>

\* no name (null)
NoName == ""

(***************************************************************************)
(* Bounds of the extraction and cache models.                              *)
(***************************************************************************)
\* authors in a list given to getPreferredAuthor (SelSpec)
MaxAuthors == 3
\* authors on a page read by getPaperData (ExtractSpec)
MaxPageAuthors == 2
\* names in the liked-authors list
MaxLiked == 2
\* documents
NDocs == 1
\* times the clock is advanced in a run
MaxTicks == 1

(***************************************************************************)
(* String functions of the content script.                                 *)
(***************************************************************************)
\* the character at place i of a text, as a text
CharAt(str, i) == SubSeq(str, i, i)

\* String.prototype.indexOf, from 1; 0 when c does not occur
IndexOf(str, c) ==
  LET at == {i \in 1..Len(str) : CharAt(str, i) = c} IN
  IF at = {} THEN 0 ELSE CHOOSE i \in at : \A j \in at : i <= j

UpperToLower ==
  "A" :> "a" @@ "B" :> "b" @@ "C" :> "c" @@ "D" :> "d" @@ "E" :> "e" @@ "F" :> "f" @@ "G" :> "g" @@ "H" :> "h" @@ "I" :> "i" @@ "J" :> "j" @@ "K" :> "k" @@ "L" :> "l" @@
  "M" :> "m" @@ "N" :> "n" @@ "O" :> "o" @@ "P" :> "p" @@ "Q" :> "q" @@ "R" :> "r" @@ "S" :> "s" @@ "T" :> "t" @@ "U" :> "u" @@ "V" :> "v" @@ "W" :> "w" @@ "X" :> "x" @@ "Y" :> "y" @@ "Z" :> "z"

\* String.prototype.toLowerCase, on the letters A-Z
ToLowerCase(str) ==
  [i \in 1..Len(str) |-> IF str[i] \in DOMAIN UpperToLower THEN UpperToLower[str[i]] ELSE str[i]]

IsSpace(c) == c \in {" ", "\t", "\n"}

\* String.prototype.trim: what lies between the first and the last non-space character
Trim(str) ==
  LET keep == {i \in 1..Len(str) : ~IsSpace(str[i])} IN
  IF keep = {} THEN <<>>
  ELSE SubSeq(str, CHOOSE i \in keep : \A j \in keep : i <= j,
                   CHOOSE i \in keep : \A j \in keep : i >= j)

\* String.prototype.includes
Includes(str, sub) ==
  \E i \in 0..(Len(str) - Len(sub)) : SubSeq(str, i + 1, i + Len(sub)) = sub

IsDotOrComma(c) == c \in {".", ","}
NotDotOrComma(c) == ~IsDotOrComma(c)

\* isAuthorMatch's normalize: name.toLowerCase().replace(/[.,]/g, '').trim()
Normalize(name) == Trim(SelectSeq(ToLowerCase(name), NotDotOrComma))

\* the match with only the liked name looked for in the author's name
isAuthorMatch_OneWay(fullAuthorName, likedAuthorName) ==
  Includes(Normalize(Chars[fullAuthorName]), Normalize(Chars[likedAuthorName]))

\* the match with only the author's name looked for in the liked name
isAuthorMatch_FullInLiked(fullAuthorName, likedAuthorName) ==
  Includes(Normalize(Chars[likedAuthorName]), Normalize(Chars[fullAuthorName]))

isAuthorMatch(fullAuthorName, likedAuthorName) ==
  LET fullNorm == Normalize(Chars[fullAuthorName])
      likedNorm == Normalize(Chars[likedAuthorName])
  IN Includes(fullNorm, likedNorm) \/ Includes(likedNorm, fullNorm)

\* the names that appear on pages and in the liked list
PageNames == {AliceJohnson, BobSmith, CarolDavis, JSmith}
LikedNames == {Smith, Johnson, Lee}
ReadmeExample == <<AliceJohnson, BobSmith, CarolDavis>>

\* isAuthorMatch on the names above, computed once
MatchTable ==
  <<AliceJohnson, Smith>> :> isAuthorMatch(AliceJohnson, Smith) @@
  <<AliceJohnson, Johnson>> :> isAuthorMatch(AliceJohnson, Johnson) @@
  <<AliceJohnson, Lee>> :> isAuthorMatch(AliceJohnson, Lee) @@
  <<BobSmith, Smith>> :> isAuthorMatch(BobSmith, Smith) @@
  <<BobSmith, Johnson>> :> isAuthorMatch(BobSmith, Johnson) @@
  <<BobSmith, Lee>> :> isAuthorMatch(BobSmith, Lee) @@
  <<JSmith, Smith>> :> isAuthorMatch(JSmith, Smith) @@
  <<JSmith, Johnson>> :> isAuthorMatch(JSmith, Johnson) @@
  <<JSmith, Lee>> :> isAuthorMatch(JSmith, Lee) @@
  <<CarolDavis, Smith>> :> isAuthorMatch(CarolDavis, Smith) @@
  <<CarolDavis, Johnson>> :> isAuthorMatch(CarolDavis, Johnson) @@
  <<CarolDavis, Lee>> :> isAuthorMatch(CarolDavis, Lee)

AuthorMatches(fullAuthorName, likedAuthorName) ==
  IF <<fullAuthorName, likedAuthorName>> \in DOMAIN MatchTable
    THEN MatchTable[<<fullAuthorName, likedAuthorName>>]
    ELSE isAuthorMatch(fullAuthorName, likedAuthorName)

(***************************************************************************)
(* getPreferredAuthor: for each liked author, in order, the authors of the *)
(* paper in order; the first author that matches is returned, and the      *)
(* first author of the paper when none does.                               *)
(***************************************************************************)
\* the inner loop: the index of the first author from j on that matches, 0 if none
RECURSIVE FirstMatch(_, _, _)
FirstMatch(authorsList, likedAuthor, j) ==
  IF j > Len(authorsList) THEN 0
  ELSE IF AuthorMatches(authorsList[j], likedAuthor) THEN j
  ELSE FirstMatch(authorsList, likedAuthor, j + 1)

\* the loops with the authors outside and the liked authors inside
RECURSIVE ScanLiked_AuthorsFirst(_, _, _)
ScanLiked_AuthorsFirst(authorsList, liked, j) ==
  IF j > Len(authorsList) THEN authorsList[1]
  ELSE IF \E i \in 1..Len(liked) : AuthorMatches(authorsList[j], liked[i])
    THEN authorsList[j]
    ELSE ScanLiked_AuthorsFirst(authorsList, liked, j + 1)

\* the loops returning the liked name instead of the paper's author
RECURSIVE ScanLiked_ReturnsLiked(_, _, _)
ScanLiked_ReturnsLiked(authorsList, liked, i) ==
  IF i > Len(liked) THEN authorsList[1]
  ELSE IF FirstMatch(authorsList, liked[i], 1) # 0 THEN liked[i]
  ELSE ScanLiked_ReturnsLiked(authorsList, liked, i + 1)

\* no fallback to the first author
NoMatchFallback_None(authorsList) == NoName

\* no liked author matched: return authorsList[0]
NoMatchFallback(authorsList) == authorsList[1]

\* the outer loop, from the i-th liked author on, and the fallback after it
RECURSIVE ScanLiked(_, _, _)
ScanLiked(authorsList, liked, i) ==
  IF i > Len(liked) THEN NoMatchFallback(authorsList)
  ELSE LET j == FirstMatch(authorsList, liked[i], 1) IN
       IF j # 0 THEN authorsList[j]
       ELSE ScanLiked(authorsList, liked, i + 1)

getPreferredAuthor(authorsList, liked) ==
  IF authorsList = <<>> THEN NoName ELSE ScanLiked(authorsList, liked, 1)

Tabs == 1..NTabs
Authors == {BobSmith, AliceJohnson}
NoAuthor == NoName
NoGroup == 0

VARIABLES
  \* the browser's tab and tab-group surface
  tabOpen,       \* the tabs that exist
  tabGroup,      \* tab -> the group it is in (tab.groupId), NoGroup if none
  tabDoc,        \* tab -> the document it displays: the count of its navigations
  liveGroups,    \* the tab groups that exist
  nextGroup,     \* the next group id chrome.tabs.group hands out
  \* ArxivBackgroundManager
  authorGroups,  \* this.authorGroups: author -> group id (NoGroup: no entry)
  tabAuthors,    \* this.tabAuthors: tab -> author (NoAuthor: no entry)
  ops,           \* the handler invocations in flight, each at an await
  \* bookkeeping of the run
  sched,         \* the run's limits: [ops: invocations per run, flight: in flight together]
  started,       \* the handler invocations started so far, a bag of [kind, tab, author]
  overlap,       \* two invocations have been in flight together since the last idle moment
  seqlog         \* the invocations that ran one after another, with what each left behind

VARIABLES
  \* chrome.storage.local and the clock
  likedAuthors,  \* the 'likedAuthors' key: the user's list, in priority order
  storage,       \* the 'arxiv_<id>' keys: document id -> stored record, NoRec if none
  now,           \* Date.now(), in days
  ticks,         \* times the clock has been advanced
  \* the content script (ArxivTitleExtractor)
  extracted,     \* what the last getPaperData returned, and by which branch
  targetTitle,   \* this.targetTitle: the title updateTabTitle built last, "" before
  ret,           \* the helper function called last, its arguments and what it returned
  popup,         \* the popup (PopupManager): its likedAuthors and its storage writes
  watch,         \* the page's document.title with the content script's interval
                 \* watchers and mutation observers
  sel            \* the last getPreferredAuthor call: its two lists and its result

VARIABLES
  \* the background's two-tier cache (ArxivBackgroundManager)
  paperCache,    \* this.paperCache: the Map's entries [id, data], in insertion order
  others,        \* the 'arxiv_<id>' keys of documents other than DocIds: [lo, hi], the
                 \* keys lo..hi
  cops,          \* getCachedData, cacheData and cleanupCache invocations at an await
  cstarted,      \* getCachedData and cacheData calls so far
  cget,          \* the last getCachedData that returned, with what it read and left
  cput,          \* the last cacheData that returned, with what it wrote
  cclean         \* the last cleanupCache that ended, with what it changed

stvars == <<likedAuthors, storage, now, ticks>>
svars == <<extracted, sel, targetTitle, ret, popup, watch>>
cvars == <<paperCache, others, cops, cstarted, cget, cput, cclean>>

gvars == <<tabOpen, tabGroup, tabDoc, liveGroups, nextGroup, authorGroups, tabAuthors,
           ops, sched, started, overlap, seqlog>>

vars == <<gvars, stvars, svars, cvars>>

InFlight == BagToSet(ops)
Quiescent == ops = EmptyBag

Replace(op, new) == (ops (-) SetToBag({op})) (+) SetToBag({new})

MembersOf(g) == {t \in tabOpen : tabGroup[t] = g}

(***************************************************************************)
(* The state after the constructor: empty maps, no handler running.  The   *)
(* browser has NTabs tabs open, none of them grouped.                      *)
(***************************************************************************)
GInit(maxOps, maxFlight) ==
  /\ sched = [ops |-> maxOps, flight |-> maxFlight]
  /\ tabOpen = Tabs
  /\ tabGroup = [t \in Tabs |-> NoGroup]
  /\ tabDoc = [t \in Tabs |-> 0]
  /\ liveGroups = {}
  /\ nextGroup = 1
  /\ authorGroups = [a \in Authors |-> NoGroup]
  /\ tabAuthors = [t \in Tabs |-> NoAuthor]
  /\ ops = EmptyBag
  /\ started = EmptyBag
  /\ overlap = FALSE
  /\ seqlog = <<>>

\* the grouping handlers leave the storage and the content script alone, and no tab
\* navigates
GFrame == UNCHANGED <<stvars, svars, cvars, tabDoc>>

(***************************************************************************)
(* generateAuthorColor.  The hash is a 32-bit integer, kept as its two     *)
(* halves of 16 bits so that no step of the computation leaves the range   *)
(* of the model checker's integers.                                        *)
(***************************************************************************)
Half == 65536

UpperCase == "ABCDEFGHIJKLMNOPQRSTUVWXYZ"
LowerCase == "abcdefghijklmnopqrstuvwxyz"
OtherCodes == " " :> 32 @@ "&" :> 38 @@ "," :> 44 @@ "." :> 46 @@ "_" :> 95

\* String.prototype.charCodeAt, from 1
charCodeAt(str, i) ==
  LET c == CharAt(str, i) IN
  IF IndexOf(UpperCase, c) # 0 THEN 64 + IndexOf(UpperCase, c)
  ELSE IF IndexOf(LowerCase, c) # 0 THEN 96 + IndexOf(LowerCase, c)
  ELSE OtherCodes[c]

\* hash << 4
Shl5_By4(hash) ==
  LET lo == hash.lo * 16
      hi == hash.hi * 16 + (lo \div Half)
  IN [hi |-> hi % Half, lo |-> lo % Half]

\* hash << 5: the 32 bits moved up by five places, the bits pushed out lost
Shl5(hash) ==
  LET lo == hash.lo * 32
      hi == hash.hi * 32 + (lo \div Half)
  IN [hi |-> hi % Half, lo |-> lo % Half]

\* the number that 32 bits stand for as a signed integer, with its upper half signed
Signed(hash) ==
  [hi |-> IF hash.hi >= Half \div 2 THEN hash.hi - Half ELSE hash.hi, lo |-> hash.lo]

\* a - b and a + char on numbers, exact
Minus(a, b) ==
  LET lo == a.lo - b.lo IN
  IF lo < 0 THEN [hi |-> a.hi - b.hi - 1, lo |-> lo + Half]
  ELSE [hi |-> a.hi - b.hi, lo |-> lo]
Plus(a, char) ==
  LET lo == a.lo + char IN [hi |-> a.hi + (lo \div Half), lo |-> lo % Half]

\* hash & hash: the number brought to 32 bits
And32(a) == [hi |-> a.hi % Half, lo |-> a.lo]

\* hash = ((hash << 5) - hash) + char; hash = hash & hash
HashStep(hash, char) ==
  And32(Plus(Minus(Signed(Shl5(hash)), Signed(hash)), char))

\* the loop over the characters of the name, from the i-th on
RECURSIVE HashLoop(_, _, _)
HashLoop(hash, authorName, i) ==
  IF i > Len(authorName) THEN hash
  ELSE CHOOSE last \in {HashLoop(next, authorName, i + 1) :
                          next \in {HashStep(hash, charCodeAt(authorName, i))}} : TRUE

\* the signed value of the 32 bits
ToInt32(hash) ==
  IF hash.hi >= Half \div 2 THEN (hash.hi - Half) * Half + hash.lo
  ELSE hash.hi * Half + hash.lo

\* the remainder with the magnitude taken in 32 bits, where the most negative value
\* is its own magnitude and the remainder takes its sign
AbsMod_Wrapped(hash, m) ==
  IF hash < 0 /\ hash + 1 = -2147483647 THEN -((((-(hash + 1)) % m) + 1) % m)
  ELSE IF hash < 0 THEN (-hash) % m
  ELSE hash % m

\* Math.abs(hash) % m; Math.abs is exact on numbers, so 2^31 for the most negative hash
AbsMod(hash, m) ==
  IF hash < 0 THEN (((-(hash + 1)) % m) + 1) % m
  ELSE hash % m

\* `hsl(${hue}, ${saturation}%, ${lightness}%)`
Hsl(hue, saturation, lightness) ==
  "hsl(" \o ToString(hue) \o ", " \o ToString(saturation) \o "%, "
         \o ToString(lightness) \o "%)"

\* null
NoColor == [absent |-> TRUE]

\* the descriptor for a hash
ColorOf(hash) ==
  LET hue == AbsMod(hash, 360)
      saturation == 45 + AbsMod(hash, 20)
      lightness == 85 + AbsMod(hash, 10)
  IN [background |-> Hsl(hue, saturation, lightness),
      border |-> Hsl(hue, saturation + 20, lightness - 30),
      hue |-> hue]

\* the hash started from the number of calls made before
generateAuthorColor_Seeded(authorName) ==
  IF authorName = NoName THEN NoColor
  ELSE ColorOf(ToInt32(HashLoop([hi |-> 0, lo |-> ret.n], authorName, 1)))

generateAuthorColor(authorName) ==
  IF authorName = NoName THEN NoColor
  ELSE ColorOf(ToInt32(HashLoop([hi |-> 0, lo |-> 0], authorName, 1)))

\* generateAuthorColor on the authors of the grouping model, computed once
AuthorColors ==
  BobSmith :> generateAuthorColor(BobSmith) @@
  AliceJohnson :> generateAuthorColor(AliceJohnson) @@
  NoAuthor :> generateAuthorColor(NoAuthor)

\* the authorColor of the content script's message for a record with firstAuthor a
MessageColor(a) ==
  IF a \in DOMAIN AuthorColors THEN AuthorColors[a] ELSE generateAuthorColor(a)

\* getTabGroupColor: Chrome's tab group colors and the one for a hue
colors == <<"grey", "blue", "red", "yellow", "green", "pink", "purple", "cyan">>

\* Math.floor((hue / 360) * colors.length), then % colors.length; the array is from 0
getTabGroupColor(hue) == colors[(((hue * Len(colors)) \div 360) % Len(colors)) + 1]

\* authorColor?.hue || 0
HueOr0(authorColor) == IF authorColor = NoColor THEN 0 ELSE authorColor.hue

(***************************************************************************)
(* Starting and finishing a handler invocation.                            *)
(***************************************************************************)
Begin(op) ==
  /\ BagCardinality(started) < sched.ops
  /\ BagCardinality(ops) < sched.flight
  /\ UNCHANGED sched
  /\ started' = started (+) SetToBag({[kind |-> op.kind, tab |-> op.tab, author |-> op.author]})
  /\ ops' = ops (+) SetToBag({op})
  /\ IF Quiescent
       THEN UNCHANGED <<overlap, seqlog>>
       ELSE overlap' = TRUE /\ seqlog' = <<>>

\* what a finished invocation left behind, in the state it finished in
Entry(op, ag, caught, path) ==
  [kind |-> op.kind, tab |-> op.tab, author |-> op.author,
   stale |-> op.stale, caught |-> caught, path |-> path,
   bind |-> IF op.author = NoAuthor THEN NoGroup ELSE ag[op.author],
   grp |-> tabGroup[op.tab],
   live |-> op.author # NoAuthor /\ ag[op.author] \in liveGroups]

\* rec: the invocation as logged; op: as it was in flight
FinishAs(op, rec, ag, caught, path) ==
  /\ ops' = ops (-) SetToBag({op})
  /\ authorGroups' = ag
  /\ IF overlap
       THEN seqlog' = <<>> /\ overlap' = (ops' # EmptyBag)
       ELSE seqlog' = Append(seqlog, Entry(rec, ag, caught, path)) /\ overlap' = FALSE
  /\ UNCHANGED <<started, sched>>

Finish(op, ag, caught, path) == FinishAs(op, op, ag, caught, path)

(***************************************************************************)
(* updateTabTitle(tabId, newTitle, paperData, authorColor), called by the  *)
(* message listener for the sending tab and by handleTabUpdate with the    *)
(* cached record.  It issues chrome.tabs.update and waits.  The record's   *)
(* firstAuthor is a, or absent; the record is of the document the tab      *)
(* displays when the call is made.                                         *)
(***************************************************************************)
\* an author made up for a record that has none
GroupingAuthor_Fabricate(a) == IF a = NoAuthor THEN BobSmith ELSE a

\* const author = paperData.firstAuthor
GroupingAuthor(a) == a

NewAssign(t, a) ==
  [kind |-> "assign", tab |-> t, author |-> GroupingAuthor(a), pc |-> "title",
   gid |-> NoGroup, res |-> "none", cnt |-> 0, stale |-> NoGroup, doc |-> tabDoc[t],
   authorColor |-> MessageColor(a), color |-> "", tries |-> 0]

updateTabTitle(t, a) ==
  /\ t \in tabOpen
  /\ Begin(NewAssign(t, a))
  /\ UNCHANGED <<tabOpen, tabGroup, liveGroups, nextGroup, authorGroups, tabAuthors>>

\* the browser answers chrome.tabs.update: it rejects when the tab is gone
HostTabsUpdate(op) ==
  /\ op.pc = "title"
  /\ ops' = Replace(op, [op EXCEPT !.pc = "titled",
                                   !.res = IF op.tab \in tabOpen THEN "ok" ELSE "err"])
  /\ UNCHANGED <<tabOpen, tabGroup, liveGroups, nextGroup, authorGroups, tabAuthors,
                 started, sched, overlap, seqlog>>

(***************************************************************************)
(* manageAuthorGrouping up to its first await: the tab -> author entry is  *)
(* written, the author's group is looked up, and chrome.tabs.group is      *)
(* issued, to create a group when there is none and to add the tab to the  *)
(* bound group otherwise.                                                  *)
(***************************************************************************)
\* a lookup that never finds the binding
BoundGroup_Miss(ag, a) == NoGroup

BoundGroup(ag, a) == ag[a]

ManageEntry(op, ag) ==
  LET g == BoundGroup(ag, op.author) IN
  IF g = NoGroup
    THEN [op EXCEPT !.pc = "create", !.gid = NoGroup, !.res = "none",
                    !.color = getTabGroupColor(HueOr0(op.authorColor))]
    ELSE [op EXCEPT !.pc = "add", !.gid = g, !.res = "none"]

\* updateTabTitle after chrome.tabs.update (and the cache write) returned
AfterTitle(op) ==
  /\ op.pc = "titled"
  /\ IF op.res = "err"
       THEN \* the rejection is caught by updateTabTitle's catch
            /\ Finish(op, authorGroups, TRUE, "notab")
            /\ UNCHANGED tabAuthors
       ELSE IF op.author = NoAuthor
         THEN \* no firstAuthor: no grouping
              /\ Finish(op, authorGroups, FALSE, "noauthor")
              /\ UNCHANGED tabAuthors
         ELSE /\ tabAuthors' = [tabAuthors EXCEPT ![op.tab] = op.author]
              /\ ops' = Replace(op, ManageEntry(op, authorGroups))
              /\ UNCHANGED <<authorGroups, started, sched, overlap, seqlog>>
  /\ UNCHANGED <<tabOpen, tabGroup, liveGroups, nextGroup>>

\* the browser answers chrome.tabs.group({tabIds: [tabId]}): a new group holding the tab
HostGroupCreate(op) ==
  /\ op.pc = "create"
  /\ IF op.tab \in tabOpen
       THEN /\ tabGroup' = [tabGroup EXCEPT ![op.tab] = nextGroup]
            /\ liveGroups' = liveGroups \cup {nextGroup}
            /\ nextGroup' = nextGroup + 1
            /\ ops' = Replace(op, [op EXCEPT !.pc = "created", !.res = "ok",
                                             !.gid = nextGroup])
       ELSE /\ ops' = Replace(op, [op EXCEPT !.pc = "created", !.res = "err"])
            /\ UNCHANGED <<tabGroup, liveGroups, nextGroup>>
  /\ UNCHANGED <<tabOpen, authorGroups, tabAuthors, started, sched, overlap, seqlog>>

\* after the group was created: chrome.tabGroups.update is issued
AfterCreate(op) ==
  /\ op.pc = "created"
  /\ IF op.res = "err"
       THEN Finish(op, authorGroups, TRUE, "createfailed")
       ELSE /\ ops' = Replace(op, [op EXCEPT !.pc = "update", !.res = "none"])
            /\ UNCHANGED <<authorGroups, started, sched, overlap, seqlog>>
  /\ UNCHANGED <<tabOpen, tabGroup, liveGroups, nextGroup, tabAuthors>>

\* the browser answers chrome.tabGroups.update: it rejects when the group is gone
HostGroupUpdate(op) ==
  /\ op.pc = "update"
  /\ ops' = Replace(op, [op EXCEPT !.pc = "updated",
                                   !.res = IF op.gid \in liveGroups THEN "ok" ELSE "err"])
  /\ UNCHANGED <<tabOpen, tabGroup, liveGroups, nextGroup, authorGroups, tabAuthors,
                 started, sched, overlap, seqlog>>

\* this.authorGroups.set(author, groupId)
StoreBinding(ag, a, g) == [ag EXCEPT ![a] = g]

AfterUpdate(op) ==
  /\ op.pc = "updated"
  /\ IF op.res = "err"
       THEN Finish(op, authorGroups, TRUE, "updatefailed")
       ELSE Finish(op, StoreBinding(authorGroups, op.author, op.gid), FALSE, "created")
  /\ UNCHANGED <<tabOpen, tabGroup, liveGroups, nextGroup, tabAuthors>>

\* the browser answers chrome.tabs.group({groupId, tabIds: [tabId]}): it rejects when
\* the group or the tab is gone
HostGroupAdd(op) ==
  /\ op.pc = "add"
  /\ IF op.gid \in liveGroups /\ op.tab \in tabOpen
       THEN /\ tabGroup' = [tabGroup EXCEPT ![op.tab] = op.gid]
            /\ ops' = Replace(op, [op EXCEPT !.pc = "added", !.res = "ok"])
       ELSE /\ ops' = Replace(op, [op EXCEPT !.pc = "added", !.res = "err",
                                     !.stale = IF op.gid \in liveGroups
                                                 THEN op.stale ELSE op.gid])
            /\ UNCHANGED tabGroup
  /\ UNCHANGED <<tabOpen, liveGroups, nextGroup, authorGroups, tabAuthors,
                 started, sched, overlap, seqlog>>

\* the catch around the add: the binding is deleted and manageAuthorGrouping is called
\* again, which runs to its own first await
DropBinding(ag, a) == [ag EXCEPT ![a] = NoGroup]

\* the binding is dropped and nothing is created in its place
Recover_GiveUp(op, ag) == [op EXCEPT !.pc = "created", !.res = "err"]

\* the add tried again with the group that failed
Recover_Again(op, ag) == [op EXCEPT !.pc = "add", !.res = "none", !.tries = @ + 1]

\* the call of manageAuthorGrouping from the catch; tries counts these calls
Recover(op, ag) == [ManageEntry(op, ag) EXCEPT !.tries = @ + 1]

AfterAdd(op) ==
  /\ op.pc = "added"
  /\ IF op.res = "ok"
       THEN /\ Finish(op, authorGroups, FALSE, "added")
            /\ UNCHANGED tabAuthors
       ELSE /\ authorGroups' = DropBinding(authorGroups, op.author)
            /\ tabAuthors' = [tabAuthors EXCEPT ![op.tab] = op.author]
            /\ ops' = Replace(op, Recover(op, authorGroups'))
            /\ UNCHANGED <<started, sched, overlap, seqlog>>
  /\ UNCHANGED <<tabOpen, tabGroup, liveGroups, nextGroup>>

(***************************************************************************)
(* The browser closes a tab: the tab leaves its group and tabs.onRemoved   *)
(* is dispatched to handleTabRemoval.                                      *)
(***************************************************************************)
NewRemoval(t) ==
  [kind |-> "remove", tab |-> t, author |-> NoAuthor, pc |-> "rstart",
   gid |-> NoGroup, res |-> "none", cnt |-> 0, stale |-> NoGroup]

CloseTab(t) ==
  /\ t \in tabOpen
  /\ tabOpen' = tabOpen \ {t}
  /\ tabGroup' = [tabGroup EXCEPT ![t] = NoGroup]
  /\ Begin(NewRemoval(t))
  /\ UNCHANGED <<liveGroups, nextGroup, authorGroups, tabAuthors>>

\* the browser destroys a group that has no tab left (at once, later, or never)
HostDestroyEmptyGroup(g) ==
  /\ g \in liveGroups
  /\ MembersOf(g) = {}
  /\ liveGroups' = liveGroups \ {g}
  /\ UNCHANGED <<tabOpen, tabGroup, nextGroup, authorGroups, tabAuthors,
                 ops, started, sched, overlap, seqlog>>

(***************************************************************************)
(* handleTabRemoval up to its first await: the tab's entry is deleted and, *)
(* when its author has a group, chrome.tabGroups.get is issued.            *)
(***************************************************************************)
RemovalEntry(op) ==
  /\ op.pc = "rstart"
  /\ LET a == tabAuthors[op.tab] IN
     IF a = NoAuthor
       THEN /\ Finish(op, authorGroups, FALSE, "unknown")
            /\ UNCHANGED tabAuthors
       ELSE /\ tabAuthors' = [tabAuthors EXCEPT ![op.tab] = NoAuthor]
            /\ IF authorGroups[a] = NoGroup
                 THEN FinishAs(op, [op EXCEPT !.author = a], authorGroups, FALSE, "nogroup")
                 ELSE /\ ops' = Replace(op, [op EXCEPT !.author = a, !.pc = "rget",
                                                       !.gid = authorGroups[a]])
                      /\ UNCHANGED <<authorGroups, started, sched, overlap, seqlog>>
  /\ UNCHANGED <<tabOpen, tabGroup, liveGroups, nextGroup>>

\* the browser answers chrome.tabGroups.get: it rejects when the group is gone
HostGroupGet(op) ==
  /\ op.pc = "rget"
  /\ ops' = Replace(op, [op EXCEPT !.pc = "rgot",
                                   !.res = IF op.gid \in liveGroups THEN "ok" ELSE "err"])
  /\ UNCHANGED <<tabOpen, tabGroup, liveGroups, nextGroup, authorGroups, tabAuthors,
                 started, sched, overlap, seqlog>>

\* after tabGroups.get: the catch deletes the binding; otherwise chrome.tabs.query is issued
AfterGet(op) ==
  /\ op.pc = "rgot"
  /\ IF op.res = "err"
       THEN Finish(op, DropBinding(authorGroups, op.author), FALSE, "gone")
       ELSE /\ ops' = Replace(op, [op EXCEPT !.pc = "rquery", !.res = "none"])
            /\ UNCHANGED <<authorGroups, started, sched, overlap, seqlog>>
  /\ UNCHANGED <<tabOpen, tabGroup, liveGroups, nextGroup, tabAuthors>>

\* the browser answers chrome.tabs.query({groupId}): the tabs in the group
HostTabsQuery(op) ==
  /\ op.pc = "rquery"
  /\ ops' = Replace(op, [op EXCEPT !.pc = "rqueried", !.res = "ok",
                                   !.cnt = Cardinality(MembersOf(op.gid))])
  /\ UNCHANGED <<tabOpen, tabGroup, liveGroups, nextGroup, authorGroups, tabAuthors,
                 started, sched, overlap, seqlog>>

\* the emptiness test dropped
NoTabsLeft_Always(n) == TRUE

\* tabs.length === 0
NoTabsLeft(n) == n = 0

AfterQuery(op) ==
  /\ op.pc = "rqueried"
  /\ IF NoTabsLeft(op.cnt)
       THEN Finish(op, DropBinding(authorGroups, op.author), FALSE, "empty")
       ELSE Finish(op, authorGroups, FALSE, "kept")
  /\ UNCHANGED <<tabOpen, tabGroup, liveGroups, nextGroup, tabAuthors>>

GNext ==
  \/ \E t \in Tabs, a \in Authors \cup {NoAuthor} : updateTabTitle(t, a) /\ GFrame
  \/ \E t \in Tabs : CloseTab(t) /\ GFrame
  \/ \E g \in liveGroups : HostDestroyEmptyGroup(g) /\ GFrame
  \/ \E op \in InFlight : HostTabsUpdate(op) /\ GFrame
  \/ \E op \in InFlight : AfterTitle(op) /\ GFrame
  \/ \E op \in InFlight : HostGroupCreate(op) /\ GFrame
  \/ \E op \in InFlight : AfterCreate(op) /\ GFrame
  \/ \E op \in InFlight : HostGroupUpdate(op) /\ GFrame
  \/ \E op \in InFlight : AfterUpdate(op) /\ GFrame
  \/ \E op \in InFlight : HostGroupAdd(op) /\ GFrame
  \/ \E op \in InFlight : AfterAdd(op) /\ GFrame
  \/ \E op \in InFlight : RemovalEntry(op) /\ GFrame
  \/ \E op \in InFlight : HostGroupGet(op) /\ GFrame
  \/ \E op \in InFlight : AfterGet(op) /\ GFrame
  \/ \E op \in InFlight : HostTabsQuery(op) /\ GFrame
  \/ \E op \in InFlight : AfterQuery(op) /\ GFrame


(***************************************************************************)
(* The content script on a page of document d.  A stored record is         *)
(* [title, authorsList, firstAuthor, ts]; the title is "paper" (the h1 of  *)
(* the abstract page), "fallback" (ArXiv <id>) or NoTitle (null).          *)
(***************************************************************************)
DocIds == 1..NDocs
NoRec == [absent |-> TRUE]
NoTitle == ""
\* no span.primary-subject: category stays null
NoCategory == ""
\* the retention of a stored record: 30 days
MaxAgeDays == 30

SeqsUpTo(S, n) == UNION {[1..k -> S] : k \in 0..n}
AuthorLists == SeqsUpTo(PageNames, MaxAuthors)
\* the lists parseAuthors makes of the pages of document 1
PageLists == SeqsUpTo({AliceJohnson, BobSmith}, MaxPageAuthors)
\* the popup keeps the list free of duplicates
LikedLists ==
  {l \in SeqsUpTo(LikedNames, MaxLiked) : \A i, j \in 1..Len(l) : i # j => l[i] # l[j]}

\* the stored list whether the read succeeded or not
getLikedAuthors_Unread(readOk) == likedAuthors

\* getLikedAuthors: result.likedAuthors || [], and [] when the read fails
getLikedAuthors(readOk) == IF readOk THEN likedAuthors ELSE <<>>

\* a page as the selectors find it: h1.title present or not, div.authors present or
\* not, and the list parseAuthors makes of it
PlainPages ==
  {[ok |-> TRUE, hasTitle |-> t, hasAuthors |-> FALSE, authorsList |-> <<>>,
    category |-> NoCategory] : t \in BOOLEAN}
  \cup {[ok |-> TRUE, hasTitle |-> t, hasAuthors |-> TRUE, authorsList |-> l,
          category |-> NoCategory] : t \in BOOLEAN, l \in PageLists}

\* pages with a span.primary-subject too: one without authors, one by Bob Smith
SubjectPages ==
  {[ok |-> TRUE, hasTitle |-> TRUE, hasAuthors |-> FALSE, authorsList |-> <<>>,
    category |-> "Computation and Language (cs.CL)"],
   [ok |-> TRUE, hasTitle |-> TRUE, hasAuthors |-> TRUE, authorsList |-> <<BobSmith>>,
    category |-> "Computation and Language (cs.CL)"]}

Pages == PlainPages \cup SubjectPages

\* the request for the abstract page failed
NoPage ==
  [ok |-> FALSE, hasTitle |-> FALSE, hasAuthors |-> FALSE, authorsList |-> <<>>,
   category |-> NoCategory]

\* no popup is open and no write of the liked list is on its way
\* the page before the content script has touched its title
NoWatch ==
  [title |-> "", observers |-> <<>>, timers |-> <<>>, titleWatcher |-> 0, nextTimer |-> 1,
   turn |-> 1, runs |-> 0, sets |-> 0]

\* no clearCache is in progress
NoClearing == [pc |-> "idle"]

NoPopup == [open |-> FALSE, likedAuthors |-> <<>>, writes |-> <<>>, n |-> 0,
            last |-> <<"none", "", <<>>>>, clear |-> NoClearing]

\* no helper function was called yet
NoRet == [fn |-> "none", n |-> 0]

NoSel ==
  [called |-> FALSE, authors |-> <<>>, readOk |-> TRUE, liked |-> <<>>, result |-> NoName]

\* title, authorsList, firstAuthor and category as getPaperData and
\* fetchAbstractPageData set them
PageData(page, liked) ==
  [title |-> IF page.hasTitle THEN "paper" ELSE NoTitle,
   authorsList |-> page.authorsList,
   category |-> page.category,
   firstAuthor |-> IF page.hasAuthors
                     THEN getPreferredAuthor(page.authorsList, liked) ELSE NoName]

\* the record with its timestamp, as cacheData and cacheDataAsync store it
Stamped(rec) ==
  [title |-> rec.title, authorsList |-> rec.authorsList, category |-> rec.category,
   firstAuthor |-> rec.firstAuthor, ts |-> now]

Unstamped(r) ==
  [title |-> r.title, authorsList |-> r.authorsList, category |-> r.category,
   firstAuthor |-> r.firstAuthor]

(***************************************************************************)
(* The content script's updateTabTitle(paperData) up to this.targetTitle:  *)
(* the author's short name is put before the title, the result is cut to   *)
(* 60 characters, the category's tag is put before that.  Titles and       *)
(* categories are TLA+ strings, on which Len, SubSeq and \o compute.        *)
(***************************************************************************)
\* newTitle.length > 60, newTitle.substring(0, 57)
TitleLimit == 60
TitleKeep == 57

\* str.split(c)
RECURSIVE Split(_, _)
Split(str, c) ==
  LET i == IndexOf(str, c) IN
  IF i = 0 THEN <<str>>
  ELSE <<SubSeq(str, 1, i - 1)>> \o Split(SubSeq(str, i + 1, Len(str)), c)

NonEmptyPart(part) == Len(part) > 0

\* str.replace(c, ''): the first c is dropped
DropFirst(str, c) ==
  LET i == IndexOf(str, c) IN
  IF i = 0 THEN str ELSE SubSeq(str, 1, i - 1) \o SubSeq(str, i + 1, Len(str))

\* getShortAuthorName, for a name with a non-space character in it
getShortAuthorName(fullName) ==
  IF fullName = NoName THEN ""
  ELSE LET parts == SelectSeq(Split(fullName, " "), NonEmptyPart) IN
       IF Len(parts) = 1 THEN parts[1]
       ELSE IF Len(parts) = 2 THEN parts[2]
       ELSE IF IndexOf(fullName, ",") # 0 THEN DropFirst(parts[1], ",")
       ELSE parts[Len(parts)]

\* `${authorShort}: ${newTitle}` if paperData.firstAuthor
WithAuthor(title, firstAuthor) ==
  IF firstAuthor # NoName THEN getShortAuthorName(firstAuthor) \o ": " \o title ELSE title

\* newTitle.substring(0, 57) + '...' if newTitle.length > 60
Truncate(title) ==
  IF Len(title) > TitleLimit THEN SubSeq(title, 1, TitleKeep) \o "..." ELSE title

\* category.match(/\(([^)]+)\)/): the places of the first "(" that has a character
\* other than ")" after it and a ")" further on, and of that ")"; <<0, 0>> if no match
ParenMatch(category) ==
  LET n == Len(category)
      opens == {i \in 1..n : /\ CharAt(category, i) = "("
                              /\ i < n /\ CharAt(category, i + 1) # ")"
                              /\ \E j \in (i + 2)..n : CharAt(category, j) = ")"}
  IN IF opens = {} THEN <<0, 0>>
     ELSE LET i == CHOOSE k \in opens : \A l \in opens : k <= l
              closes == {j \in (i + 2)..n : CharAt(category, j) = ")"}
          IN <<i, CHOOSE k \in closes : \A l \in closes : k <= l>>

\* the tag taken from the whole text, parentheses or not
CategoryShort_NoParens(category) == Split(category, ".")[1]

\* categoryShort: the text in parentheses if there is one, then split('.')[0]
CategoryShort(category) ==
  LET m == ParenMatch(category)
      inner == IF IndexOf(category, "(") # 0 /\ IndexOf(category, ")") # 0 /\ m[1] # 0
                 THEN SubSeq(category, m[1] + 1, m[2] - 1) ELSE category
  IN Split(inner, ".")[1]

\* `[${categoryShort}] ${newTitle}` if paperData.category
WithCategory(title, category) ==
  IF category # NoCategory THEN "[" \o CategoryShort(category) \o "] " \o title ELSE title

\* the category put in front before the cut
newTitle_CategoryFirst(paperData) ==
  Truncate(WithCategory(WithAuthor(paperData.title, paperData.firstAuthor),
                        paperData.category))

\* newTitle as updateTabTitle builds it from paperData
newTitle(paperData) ==
  WithCategory(Truncate(WithAuthor(paperData.title, paperData.firstAuthor)),
               paperData.category)

\* extractPaperInfo after getPaperData returned rec: updateTabTitle is called for a
\* record with a title and leaves its title in this.targetTitle
TitleAfter(rec) == IF rec.title # NoTitle THEN newTitle(rec) ELSE targetTitle

\* extractPaperInfo after getPaperData returned rec: a record with a title is cached
CacheIfTitled(st, d, rec) ==
  IF rec.title # NoTitle THEN [st EXCEPT ![d] = Stamped(rec)] ELSE st

\* Date.now() - data.timestamp < maxAge
NotTooOld(ts) == now - ts < MaxAgeDays

\* getPaperData on an abstract page, then extractPaperInfo
AbsPage(d, page, likedOk) ==
  LET liked == getLikedAuthors(likedOk)
      rec == PageData(page, liked)
  IN /\ extracted' = [via |-> "abs", id |-> d, rec |-> rec]
     /\ targetTitle' = TitleAfter(rec)
     /\ UNCHANGED <<sel, ret, popup, watch>>
     /\ storage' = CacheIfTitled(storage, d, rec)
     /\ UNCHANGED <<likedAuthors, now, ticks>>

\* getCachedDataAsync: the stored record if it is not too old; an old one is removed
CachedAsync(d, readOk) ==
  IF readOk /\ storage[d] # NoRec /\ NotTooOld(storage[d].ts) THEN storage[d] ELSE NoRec

AfterCachedAsync(d, readOk) ==
  IF readOk /\ storage[d] # NoRec /\ ~NotTooOld(storage[d].ts)
    THEN [storage EXCEPT ![d] = NoRec]
    ELSE storage

\* cached && cached.title && cached.firstAuthor
UsableCached(c) == c # NoRec /\ c.title # NoTitle /\ c.firstAuthor # NoName

\* the fields getPaperData takes from the cached record
FromCached(c) == Unstamped(c)

\* the record of a PDF page whose fetch brought nothing: title = `ArXiv ${paperId}`,
\* the other fields as they were initialised.  data is what the fetch had parsed
Placeholder_Partial(d, data) ==
  [title |-> "ArXiv " \o ToString(d), authorsList |-> data.authorsList,
   category |-> data.category, firstAuthor |-> NoName]
Placeholder(d, data) ==
  [title |-> "ArXiv " \o ToString(d), authorsList |-> <<>>, category |-> NoCategory,
   firstAuthor |-> NoName]

\* getPaperData on a PDF page, then extractPaperInfo.  The cached record is used when it
\* has a title and a first author; otherwise an incomplete one is removed and the
\* abstract page is fetched (page: what the request brought, NoPage when it failed).
PdfPage(d, readOk, page, likedOk) ==
  LET cached == CachedAsync(d, readOk)
      st1 == AfterCachedAsync(d, readOk)
      liked == getLikedAuthors(likedOk)
      data == PageData(page, liked)
      complete == page.ok /\ data.title # NoTitle /\ data.firstAuthor # NoName
      st2 == IF cached # NoRec /\ cached.firstAuthor = NoName
               THEN [st1 EXCEPT ![d] = NoRec] ELSE st1
      st3 == IF complete THEN [st2 EXCEPT ![d] = Stamped(data)] ELSE st2
      fallback == Placeholder(d, data)
  IN IF UsableCached(cached)
       THEN /\ extracted' = [via |-> "cached", id |-> d, rec |-> FromCached(cached)]
            /\ targetTitle' = TitleAfter(FromCached(cached))
            /\ UNCHANGED <<sel, ret, popup, watch>>
            /\ storage' = CacheIfTitled(st1, d, FromCached(cached))
            /\ UNCHANGED <<likedAuthors, now, ticks>>
       ELSE /\ extracted' = [via |-> IF complete THEN "fetch" ELSE "placeholder", id |-> d,
                             rec |-> IF complete THEN data ELSE fallback]
            /\ targetTitle' = TitleAfter(IF complete THEN data ELSE fallback)
            /\ UNCHANGED <<sel, ret, popup, watch>>
            /\ storage' = CacheIfTitled(st3, d, IF complete THEN data ELSE fallback)
            /\ UNCHANGED <<likedAuthors, now, ticks>>

\* time passes: a stored record reaches the end of its retention
ExtAdvance ==
  /\ ticks < MaxTicks
  /\ ticks' = ticks + 1
  /\ now' = now + MaxAgeDays
  /\ UNCHANGED <<likedAuthors, storage, extracted, sel, targetTitle, ret, popup, watch>>

\* the content script runs on pages of document 1
SFrame == UNCHANGED <<gvars, cvars>>

ExtractNext ==
  \/ \E page \in Pages, likedOk \in BOOLEAN : AbsPage(1, page, likedOk) /\ SFrame
  \/ \E readOk, likedOk \in BOOLEAN, page \in Pages \cup {NoPage} :
       PdfPage(1, readOk, page, likedOk) /\ SFrame
  \/ ExtAdvance /\ SFrame

\* getPreferredAuthor(authorsList), with the liked list as getLikedAuthors returns it
SelectAuthor(authorsList, likedOk) ==
  LET liked == getLikedAuthors(likedOk) IN
  /\ sel' = [called |-> TRUE, authors |-> authorsList, readOk |-> likedOk, liked |-> liked,
             result |-> getPreferredAuthor(authorsList, liked)]
  /\ UNCHANGED <<likedAuthors, storage, now, ticks, extracted, targetTitle, ret, popup, watch>>

SelNext ==
  \E authorsList \in AuthorLists, likedOk \in BOOLEAN :
    SelectAuthor(authorsList, likedOk) /\ SFrame

(***************************************************************************)
(* The background's cache: this.paperCache in front of chrome.storage.local.*)
(* getCachedData, cacheData and cleanupCache stop at each await; the        *)
(* storage answers in between, or rejects.                                 *)
(***************************************************************************)
MaxCacheOps == 2
MaxCacheTicks == 3
\* the stored records when the run starts
NOthers == 200

\* paperCache.size > 100, the 20 oldest entries
MemLimit == 100
MemEvict == 20
\* arxivKeys.length > 200, sorted.slice(0, 50)
StoreLimit == 200
StoreEvict == 50

\* the paperData the content script sends with a title update
PaperOfBob ==
  [title |-> "paper", authorsList |-> <<BobSmith>>, category |-> NoCategory,
   firstAuthor |-> BobSmith]
PaperOfAlice ==
  [title |-> "paper", authorsList |-> <<AliceJohnson, BobSmith>>,
   category |-> NoCategory, firstAuthor |-> AliceJohnson]
CacheRecs == {PaperOfAlice}

\* a record a run before this one stored, at day 0
StoredEarlier ==
  [title |-> "paper", authorsList |-> <<BobSmith>>, category |-> NoCategory,
   firstAuthor |-> BobSmith, ts |-> 0]

\* the other documents' keys, each written on a day of its own before the run
NoOthers == [lo |-> NDocs + 1, hi |-> NDocs]
AllOthers == [lo |-> NDocs + 1, hi |-> NDocs + NOthers]
OtherKeys(o) == o.lo..o.hi
OtherStamp(k) == k - (NDocs + NOthers + 1)

\* Map.has, Map.get, Map.set (a key already there keeps its place), Map.delete
MemHas(m, id) == \E i \in 1..Len(m) : m[i].id = id
MemGet(m, id) == m[CHOOSE i \in 1..Len(m) : m[i].id = id].data
\* the record of id, NoRec if there is none
MemLook(m, id) == IF MemHas(m, id) THEN MemGet(m, id) ELSE NoRec
MemSet_Skip(m, id, data) == m
\* a Map that moved a key set again to the end
MemSet_Refresh(m, id, data) ==
  LET NotId(x) == x.id # id IN Append(SelectSeq(m, NotId), [id |-> id, data |-> data])
MemSet(m, id, data) ==
  IF MemHas(m, id)
    THEN [i \in 1..Len(m) |-> IF m[i].id = id THEN [id |-> id, data |-> data] ELSE m[i]]
    ELSE Append(m, [id |-> id, data |-> data])

\* cleanupCache up to its await: over MemLimit entries, the first MemEvict go
MemCleanup(m) ==
  IF Len(m) > MemLimit THEN SubSeq(m, MemEvict + 1, Len(m)) ELSE m

\* Date.now() - data.timestamp < maxAge
IsFresh_Inclusive(ts) == now - ts <= MaxAgeDays
IsFresh(ts) == now - ts < MaxAgeDays

CacheCalls == {op \in BagToSet(cops) : op.kind # "cleanup"}
CPut(op, new) == (cops (-) SetToBag({op})) (+) SetToBag({new})
CDrop(op) == cops (-) SetToBag({op})

NoGet == [done |-> FALSE]
NoPut == [done |-> FALSE]
NoClean == [done |-> FALSE]

\* a getCachedData or cacheData call arrives, the one before having returned (a
\* cleanupCache it left behind may still be at an await); cget, cput and cclean tell of the calls
\* since
CBegin ==
  /\ cstarted < sched.ops
  /\ BagCardinality(cops) < sched.flight
  /\ CacheCalls = {}
  /\ cstarted' = cstarted + 1
  /\ cclean' = NoClean

\* getCachedData(paperId): a record in paperCache is returned as it is; otherwise the
\* storage is asked for arxiv_<id>
getCachedData(id) ==
  /\ CBegin
  /\ IF MemHas(paperCache, id)
       THEN /\ cget' = [done |-> TRUE, id |-> id, was |-> MemLook(paperCache, id),
                        asked |-> FALSE, readOk |-> TRUE, found |-> NoRec, age |-> 0,
                        result |-> MemGet(paperCache, id),
                        mem |-> MemLook(paperCache, id), rmOk |-> TRUE,
                        kept |-> storage[id]]
            /\ UNCHANGED cops
       ELSE /\ cops' = cops (+) SetToBag({[kind |-> "get", id |-> id, pc |-> "get"]})
            /\ cget' = NoGet
  /\ cput' = NoPut
  /\ UNCHANGED <<paperCache, others, storage, now, ticks>>

\* chrome.storage.local.get(cacheKey) answers with the record, or rejects
HostStorageGet(op, ok) ==
  /\ op.kind = "get" /\ op.pc = "get"
  /\ cops' = CPut(op, [kind |-> "get", id |-> op.id, pc |-> "got", ok |-> ok,
                       val |-> IF ok THEN storage[op.id] ELSE NoRec])
  /\ UNCHANGED <<paperCache, others, cstarted, cget, cput, cclean, storage, now, ticks>>

\* getCachedData after the await: a fresh record goes into paperCache and is returned;
\* for an old one storage.remove is called, not awaited, and null is returned, as it is
\* when nothing was found or the read failed (rmOk tells how the remove went, where
\* there is one)
AfterStorageGet(op, rmOk) ==
  /\ op.kind = "get" /\ op.pc = "got"
  /\ LET found == op.ok /\ op.val # NoRec
         fresh == found /\ IsFresh(op.val.ts)
         mem1 == IF fresh THEN MemSet(paperCache, op.id, op.val) ELSE paperCache
         st1 == IF found /\ ~fresh /\ rmOk
                  THEN [storage EXCEPT ![op.id] = NoRec] ELSE storage
     IN /\ (found /\ ~fresh) \/ rmOk
        /\ paperCache' = mem1
        /\ storage' = st1
        /\ cget' = [done |-> TRUE, id |-> op.id, was |-> NoRec, asked |-> TRUE,
                    readOk |-> op.ok, found |-> op.val,
                    age |-> IF found THEN now - op.val.ts ELSE 0,
                    result |-> IF fresh THEN op.val ELSE NoRec,
                    mem |-> MemLook(mem1, op.id), rmOk |-> rmOk, kept |-> st1[op.id]]
  /\ cops' = CDrop(op)
  /\ UNCHANGED <<others, cstarted, cput, cclean, now, ticks>>

\* cacheData(paperData): storage.set of the record with its timestamp, awaited
cacheData(id, data) ==
  /\ CBegin
  /\ cops' = cops (+) SetToBag({[kind |-> "put", id |-> id, data |-> data, pc |-> "set"]})
  /\ cget' = NoGet
  /\ cput' = NoPut
  /\ UNCHANGED <<paperCache, others, storage, now, ticks>>

\* chrome.storage.local.set writes the key, or rejects
HostStorageSet(op, ok) ==
  /\ op.kind = "put" /\ op.pc = "set"
  /\ storage' = IF ok THEN [storage EXCEPT ![op.id] = Stamped(op.data)] ELSE storage
  /\ cops' = CPut(op, [kind |-> "put", id |-> op.id, data |-> op.data, pc |-> "setdone",
                       ok |-> ok, st |-> storage'[op.id]])
  /\ UNCHANGED <<paperCache, others, cstarted, cget, cput, cclean, now, ticks>>

\* cacheData after the await: paperCache.set, then cleanupCache() runs up to its own
\* await and is left behind.  A rejected set is caught: neither happens.
AfterStorageSet(op) ==
  /\ op.kind = "put" /\ op.pc = "setdone"
  /\ LET mem1 == MemSet(paperCache, op.id, op.data) IN
     IF op.ok
       THEN /\ paperCache' = MemCleanup(mem1)
            /\ cops' = CPut(op, [kind |-> "cleanup", pc |-> "all"])
            /\ cput' = [done |-> TRUE, id |-> op.id, data |-> op.data, setOk |-> TRUE,
                        threw |-> FALSE, mem |-> MemLook(mem1, op.id), stored |-> op.st,
                        at |-> now, was |-> MemLook(paperCache, op.id),
                        passes |-> Cardinality({c \in BagToSet(cops') : c.kind = "cleanup"})]
       ELSE /\ UNCHANGED paperCache
            /\ cops' = CDrop(op)
            /\ cput' = [done |-> TRUE, id |-> op.id, data |-> op.data, setOk |-> FALSE,
                        threw |-> FALSE, mem |-> MemLook(paperCache, op.id),
                        stored |-> op.st, at |-> now, was |-> MemLook(paperCache, op.id),
                        passes |-> 0]
  /\ UNCHANGED <<others, cstarted, cget, cclean, storage, now, ticks>>

\* the 'likedAuthors' key among the keys of the storage, numbered apart from the
\* documents
LikedKey == 0
\* the keys that are not arxiv_<id>: 'likedAuthors', once the user has liked an author
PlainKeys == IF likedAuthors # <<>> THEN {LikedKey} ELSE {}

\* key.startsWith('arxiv_')
IsArxivKey_Any(k) == TRUE
IsArxivKey(k) == k # LikedKey

\* chrome.storage.local.get(null) answers with every key, or rejects
HostStorageGetAll(op, ok) ==
  /\ op.kind = "cleanup" /\ op.pc = "all"
  /\ cops' = CPut(op, [kind |-> "cleanup", pc |-> "allgot", ok |-> ok,
                       docs |-> IF ok THEN storage ELSE [d \in DOMAIN storage |-> NoRec],
                       oth |-> IF ok THEN others ELSE NoOthers,
                       plain |-> IF ok THEN PlainKeys ELSE {}])
  /\ UNCHANGED <<paperCache, others, cstarted, cget, cput, cclean, storage, now, ticks>>

\* allData[key].timestamp || 0: the liked list has no timestamp
StampOf(docs, k) ==
  IF k = LikedKey THEN 0
  ELSE IF k \in DOMAIN docs
    THEN (IF "ts" \in DOMAIN docs[k] THEN docs[k].ts ELSE 0)
    ELSE OtherStamp(k)

\* sort by timestamp; keys of one timestamp stay in the order the storage lists them,
\* here the order of the ids
SortsBefore(docs, j, k) ==
  \/ StampOf(docs, j) < StampOf(docs, k)
  \/ StampOf(docs, j) = StampOf(docs, k) /\ j < k

\* Object.keys(allData)
AllKeys(docs, oth, plain) ==
  {d \in DOMAIN docs : docs[d] # NoRec} \cup OtherKeys(oth) \cup plain

\* the arxiv_ keys of the answer
ArxivKeys(docs, oth, plain) == {k \in AllKeys(docs, oth, plain) : IsArxivKey(k)}

\* arxivKeys.length, the documents' keys counted without listing them
NKeys(docs, oth, plain) ==
  Cardinality({d \in DOMAIN docs : docs[d] # NoRec}) + (oth.hi - oth.lo + 1)
    + Cardinality({k \in plain : IsArxivKey(k)})

\* the other documents' keys left when the keys of gone are removed: the oldest go
\* first, so what stays is again a run of keys
OthersLeft(o, gone) ==
  LET left == OtherKeys(o) \ gone IN
  IF left = {} THEN NoOthers
  ELSE [lo |-> CHOOSE k \in left : k - 1 \notin left,
        hi |-> CHOOSE k \in left : k + 1 \notin left]

\* sorted.slice(0, 50)
\* the place of key k in the sorted list, from 0: the other documents' keys lie in the
\* order of their numbers, so those before one of them are counted by its number
PlaceOf(docs, oth, plain, k) ==
  LET dkeys == {d \in DOMAIN docs : docs[d] # NoRec} \cup {p \in plain : IsArxivKey(p)} IN
  Cardinality({d \in dkeys : SortsBefore(docs, d, k)})
    + (IF k \in OtherKeys(oth)
         THEN k - oth.lo
         ELSE Cardinality({j \in OtherKeys(oth) : SortsBefore(docs, j, k)}))

ToRemove(docs, oth, plain) ==
  {k \in ArxivKeys(docs, oth, plain) : PlaceOf(docs, oth, plain, k) < StoreEvict}

\* the document records of an answer, whatever the filter takes them for
DocKeys(docs, oth) == {d \in DOMAIN docs : docs[d] # NoRec} \cup OtherKeys(oth)

\* the greatest and the least timestamp among keys
NewestStamp(docs, keys) ==
  LET st == {StampOf(docs, k) : k \in keys} IN CHOOSE s \in st : \A t \in st : t <= s
OldestStamp(docs, keys) ==
  LET st == {StampOf(docs, k) : k \in keys} IN CHOOSE s \in st : \A t \in st : s <= t

\* cleanupCache after storage.get(null): over StoreLimit keys, the StoreEvict oldest are
\* removed, awaited; a rejected get is caught.  cclean tells how many document records
\* the pass found and, when it went on to remove, which, with the newest timestamp
\* among those and the oldest among the records it left
AfterStorageGetAll(op) ==
  /\ op.kind = "cleanup" /\ op.pc = "allgot"
  /\ IF op.ok /\ NKeys(op.docs, op.oth, op.plain) > StoreLimit
       THEN /\ \E gone \in {ToRemove(op.docs, op.oth, op.plain)} :
                \E left \in {DocKeys(op.docs, op.oth) \ gone} :
                   cops' = CPut(op, [kind |-> "cleanup", pc |-> "remove",
                                     found |-> NKeys(op.docs, op.oth, {}),
                                     newestGone |-> NewestStamp(op.docs, gone),
                                     oldestLeft |-> OldestStamp(op.docs, left),
                                     toRemove |-> gone])
            /\ UNCHANGED cclean
       ELSE /\ cops' = CDrop(op)
            /\ cclean' = [done |-> TRUE, failed |-> ~op.ok, removed |-> {},
                          found |-> NKeys(op.docs, op.oth, {}),
                          newestGone |-> 0, oldestLeft |-> 0]
  /\ UNCHANGED <<paperCache, others, cstarted, cget, cput, storage, now, ticks>>

\* chrome.storage.local.remove(toRemove) removes the keys, or rejects
HostStorageRemove(op, ok) ==
  /\ op.kind = "cleanup" /\ op.pc = "remove"
  /\ storage' = IF ok THEN [d \in DOMAIN storage |->
                             IF d \in op.toRemove THEN NoRec ELSE storage[d]]
                      ELSE storage
  /\ others' = IF ok THEN OthersLeft(others, op.toRemove) ELSE others
  /\ cops' = CPut(op, [kind |-> "cleanup", pc |-> "removed", ok |-> ok,
                       found |-> op.found, newestGone |-> op.newestGone,
                       oldestLeft |-> op.oldestLeft, toRemove |-> op.toRemove])
  /\ UNCHANGED <<paperCache, cstarted, cget, cput, cclean, now, ticks>>

\* cleanupCache ends; a rejected remove is caught
AfterStorageRemove(op) ==
  /\ op.kind = "cleanup" /\ op.pc = "removed"
  /\ cops' = CDrop(op)
  /\ cclean' = [done |-> TRUE, failed |-> ~op.ok,
                removed |-> IF op.ok THEN op.toRemove ELSE {},
                found |-> op.found, newestGone |-> op.newestGone,
                oldestLeft |-> op.oldestLeft]
  /\ UNCHANGED <<paperCache, others, cstarted, cget, cput, storage, now, ticks>>

\* days pass between two calls: to the day before a record of day 0 expires, then one
\* day at a time
CacheAdvance ==
  /\ ticks < MaxCacheTicks
  /\ cops = EmptyBag
  /\ ticks' = ticks + 1
  /\ now' = IF now = 0 THEN MaxAgeDays - 1 ELSE now + 1
  /\ UNCHANGED <<paperCache, others, cops, cstarted, cget, cput, cclean, storage>>

CFrame == UNCHANGED <<gvars, svars, likedAuthors>>

CacheNext ==
  \/ \E id \in DocIds : getCachedData(id) /\ CFrame
  \/ \E op \in BagToSet(cops), ok \in BOOLEAN : HostStorageGet(op, ok) /\ CFrame
  \/ \E op \in BagToSet(cops), rmOk \in BOOLEAN : AfterStorageGet(op, rmOk) /\ CFrame
  \/ \E id \in DocIds, data \in CacheRecs : cacheData(id, data) /\ CFrame
  \/ \E op \in BagToSet(cops), ok \in BOOLEAN : HostStorageSet(op, ok) /\ CFrame
  \/ \E op \in BagToSet(cops) : AfterStorageSet(op) /\ CFrame
  \/ \E op \in BagToSet(cops), ok \in BOOLEAN : HostStorageGetAll(op, ok) /\ CFrame
  \/ \E op \in BagToSet(cops) : AfterStorageGetAll(op) /\ CFrame
  \/ \E op \in BagToSet(cops), ok \in BOOLEAN : HostStorageRemove(op, ok) /\ CFrame
  \/ \E op \in BagToSet(cops) : AfterStorageRemove(op) /\ CFrame
  \/ CacheAdvance /\ CFrame

CIdle ==
  /\ paperCache = <<>>
  /\ others = NoOthers
  /\ cops = EmptyBag
  /\ cstarted = 0
  /\ cget = NoGet
  /\ cput = NoPut
  /\ cclean = NoClean

StIdle ==
  /\ likedAuthors = <<>>
  /\ storage = [d \in DocIds |-> NoRec]
  /\ now = 0
  /\ ticks = 0

SIdle ==
  /\ extracted = [via |-> "none", id |-> 0, rec |-> NoRec]
  /\ sel = NoSel
  /\ targetTitle = NoTitle
  /\ ret = NoRet
  /\ popup = NoPopup
  /\ watch = NoWatch

\* the content script starts with the user's liked list as the popup left it
SelInit ==
  /\ GInit(0, 0)
  /\ likedAuthors \in LikedLists
  /\ storage = [d \in DocIds |-> NoRec]
  /\ now = 0
  /\ ticks = 0
  /\ SIdle
  /\ CIdle

SelSpec == SelInit /\ [][SelNext]_vars

\* the pages are read with a liked list of names that match one page author or none
ExtractLiked == {l \in LikedLists : \A i \in 1..Len(l) : l[i] \in {Smith, Lee}}

ExtractInit ==
  /\ GInit(0, 0)
  /\ likedAuthors \in ExtractLiked
  /\ storage = [d \in DocIds |-> NoRec]
  /\ now = 0
  /\ ticks = 0
  /\ SIdle
  /\ CIdle

ExtractSpec == ExtractInit /\ [][ExtractNext]_vars

\* the handlers interleave at their awaits
Init == GInit(MaxOps, MaxInFlight) /\ StIdle /\ SIdle /\ CIdle

Next == GNext

Spec == Init /\ [][Next]_vars

\* each handler invocation ends before the next event is delivered
SeqInit == GInit(SeqOps, 1) /\ StIdle /\ SIdle /\ CIdle

SeqSpec == SeqInit /\ [][Next]_vars

\* the other documents' keys that make NOthers stored records with those of st
OthersBeside(st) ==
  [lo |-> NDocs + 1 + Cardinality({d \in DocIds : st[d] # NoRec}), hi |-> NDocs + NOthers]

\* the background script starts: paperCache is empty, the storage holds what earlier
\* runs left in it, the user's liked list and NOthers records, of other documents
\* and perhaps of documents of DocIds
CacheInit ==
  /\ GInit(MaxCacheOps, MaxCacheOps)
  /\ SIdle
  /\ likedAuthors = <<Smith>>
  /\ storage \in {[d \in DocIds |-> NoRec], [d \in DocIds |-> StoredEarlier]}
  /\ now = 0
  /\ ticks = 0
  /\ paperCache = <<>>
  /\ others = OthersBeside(storage)
  /\ cops = EmptyBag
  /\ cstarted = 0
  /\ cget = NoGet
  /\ cput = NoPut
  /\ cclean = NoClean

CacheSpec == CacheInit /\ [][CacheNext]_vars

(***************************************************************************)
(* paperCache filling up: the documents 1, 2, ... are cached one after     *)
(* another, each cacheData returning before the next is called, into an    *)
(* empty paperCache and an empty storage.                                  *)
(***************************************************************************)
\* calls besides the first accepted cacheData of each document
EvictExtra == 1

EvictIds == 1..(MemLimit + 1)
\* the first and the last of the documents cached first
EarlyIds == {1, MemEvict}

\* the next document not cached yet
NotStored == {d \in EvictIds : storage[d] = NoRec}
NextNew == CHOOSE d \in NotStored : \A e \in NotStored : d <= e

\* cacheData of the next document
EvictPut ==
  /\ NotStored # {}
  /\ cacheData(NextNew, PaperOfBob)

\* with paperCache at its limit, a document cached early is cached again
EvictRePut(id) ==
  /\ Len(paperCache) = MemLimit
  /\ cacheData(id, PaperOfAlice)

\* with paperCache at its limit, a document cached early is read
EvictReRead(id) ==
  /\ Len(paperCache) = MemLimit
  /\ getCachedData(id)

EvictNext ==
  \/ EvictPut /\ CFrame
  \/ \E id \in EarlyIds : EvictRePut(id) /\ CFrame
  \/ \E id \in EarlyIds : EvictReRead(id) /\ CFrame
  \/ \E op \in BagToSet(cops), ok \in BOOLEAN : HostStorageSet(op, ok) /\ CFrame
  \/ \E op \in BagToSet(cops) : AfterStorageSet(op) /\ CFrame
  \/ \E op \in BagToSet(cops), ok \in BOOLEAN : HostStorageGetAll(op, ok) /\ CFrame
  \/ \E op \in BagToSet(cops) : AfterStorageGetAll(op) /\ CFrame

\* a call comes when the cleanupCache the one before left behind has ended
EvictInit ==
  /\ GInit(MemLimit + 1 + EvictExtra, 1)
  /\ SIdle
  /\ likedAuthors = <<>>
  /\ storage = [d \in EvictIds |-> NoRec]
  /\ now = 0
  /\ ticks = 0
  /\ CIdle

EvictSpec == EvictInit /\ [][EvictNext]_vars

(***************************************************************************)
(* The content script and the background over the one storage: a page load *)
(* reads, removes and writes arxiv_<id>; the title update it sends makes   *)
(* the background cache the same document; handleTabUpdate reads it back.  *)
(***************************************************************************)
\* calls of the background's cache per run
TierOps == 3

\* pages with a title: without authors, or with Bob Smith as the only one
TierPages == {p \in PlainPages : p.hasTitle /\ p.authorsList \in {<<>>, <<BobSmith>>}}

\* the background's updateTabTitle on the content script's message: paperData.id is
\* set, so cacheData(paperData)
SendUpdate ==
  /\ extracted.via # "none"
  /\ extracted.rec.title # NoTitle
  /\ cacheData(extracted.id, extracted.rec)

\* a PDF page load of document 1 whose read of the storage is answered
PdfLookup == \E page \in TierPages \cup {NoPage} : PdfPage(1, TRUE, page, TRUE) /\ SFrame

TierNext ==
  \/ \E page \in TierPages : AbsPage(1, page, TRUE) /\ SFrame
  \/ PdfLookup
  \/ SendUpdate /\ CFrame
  \/ getCachedData(1) /\ CFrame
  \/ \E op \in BagToSet(cops), ok \in BOOLEAN : HostStorageGet(op, ok) /\ CFrame
  \/ \E op \in BagToSet(cops), rmOk \in BOOLEAN : AfterStorageGet(op, rmOk) /\ CFrame
  \/ \E op \in BagToSet(cops), ok \in BOOLEAN : HostStorageSet(op, ok) /\ CFrame
  \/ \E op \in BagToSet(cops) : AfterStorageSet(op) /\ CFrame
  \/ \E op \in BagToSet(cops), ok \in BOOLEAN : HostStorageGetAll(op, ok) /\ CFrame
  \/ \E op \in BagToSet(cops) : AfterStorageGetAll(op) /\ CFrame

\* both scripts start with nothing stored; a cleanupCache ends before the next call
TierInit ==
  /\ GInit(TierOps, 1)
  /\ SIdle
  /\ likedAuthors = <<>>
  /\ storage = [d \in DocIds |-> NoRec]
  /\ now = 0
  /\ ticks = 0
  /\ CIdle

TierSpec == TierInit /\ [][TierNext]_vars

(***************************************************************************)
(* The grouping handlers while tabs navigate: the browser loads another    *)
(* document in a tab, whatever handler is at an await.                     *)
(***************************************************************************)
\* navigations per tab
MaxNavs == 1

\* the tab loads a document it has not displayed before; it stays in its group
Navigate(t) ==
  /\ t \in tabOpen
  /\ tabDoc[t] < MaxNavs
  /\ tabDoc' = [tabDoc EXCEPT ![t] = @ + 1]
  /\ UNCHANGED <<tabOpen, tabGroup, liveGroups, nextGroup, authorGroups, tabAuthors,
                 ops, sched, started, overlap, seqlog>>
  /\ UNCHANGED <<stvars, svars, cvars>>

NavNext ==
  \/ GNext
  \/ \E t \in Tabs : Navigate(t)

NavSpec == Init /\ [][NavNext]_vars

(***************************************************************************)
(* PDF pages of document 1 loaded in tab 1, again and again: the content   *)
(* script fetches the abstract page unless the storage has a usable        *)
(* record, and sends the background the title update, which groups the tab *)
(* by the record's firstAuthor.                                            *)
(***************************************************************************)
\* title updates handled per run
RetryOps == 2

\* the content script's updateTabTitle(paperData): the message reaches the background's
\* updateTabTitle with the record as it was extracted
DeliverTitle ==
  /\ extracted.via # "none"
  /\ extracted.rec.title # NoTitle
  /\ updateTabTitle(1, extracted.rec.firstAuthor)

\* title && firstAuthor of what fetchAbstractPageData parsed
PageComplete(page) == page.ok /\ page.hasTitle /\ PageData(page, likedAuthors).firstAuthor # NoName

RetryNext ==
  \/ \E readOk \in BOOLEAN, page \in SubjectPages \cup {NoPage} :
       PdfPage(1, readOk, page, TRUE) /\ SFrame
  \/ ExtAdvance /\ SFrame
  \/ DeliverTitle /\ GFrame
  \/ \E op \in InFlight : HostTabsUpdate(op) /\ GFrame
  \/ \E op \in InFlight : AfterTitle(op) /\ GFrame
  \/ \E op \in InFlight : HostGroupCreate(op) /\ GFrame
  \/ \E op \in InFlight : AfterCreate(op) /\ GFrame
  \/ \E op \in InFlight : HostGroupUpdate(op) /\ GFrame
  \/ \E op \in InFlight : AfterUpdate(op) /\ GFrame
  \/ \E op \in InFlight : HostGroupAdd(op) /\ GFrame
  \/ \E op \in InFlight : AfterAdd(op) /\ GFrame

RetryInit == GInit(RetryOps, 1) /\ StIdle /\ SIdle /\ CIdle

RetrySpec == RetryInit /\ [][RetryNext]_vars

(***************************************************************************)
(* The grouping claims.                                                    *)
(***************************************************************************)
IsAssign(e, t, a) == e.kind = "assign" /\ e.tab = t /\ e.author = a
IsRemove(e, t) == e.kind = "remove" /\ e.tab = t

\* every invocation so far was an assign for author a, no two on the same tab
OnlyAssignsFor(a) ==
  /\ BagCardinality(started) >= 2
  /\ \A e \in BagToSet(started) :
       e.kind = "assign" /\ e.author = a /\ CopiesIn(e, started) = 1

\* C1 (as claimed): once interleaved assigns for one author on different tabs have all
\* completed, the author has a binding, every one of those tabs is in the bound group,
\* and no other group holds a tab.
C1_OneGroupPerAuthor ==
  \A a \in Authors :
    (Quiescent /\ OnlyAssignsFor(a)) =>
      /\ authorGroups[a] # NoGroup
      /\ \A e \in BagToSet(started) : tabGroup[e.tab] = authorGroups[a]
      /\ \A g \in liveGroups : MembersOf(g) # {} => g = authorGroups[a]

\* C2 (as claimed): whenever no handler is in progress, every binding points at a group
\* that exists.
C2_NoDanglingBinding ==
  Quiescent => \A a \in Authors : authorGroups[a] # NoGroup => authorGroups[a] \in liveGroups

\* C3: two assigns in a row for the same tab and author: the author is bound after both,
\* to the same group, and the tab is in that group.
C3_AssignIdempotent ==
  \A i \in 1..(Len(seqlog) - 1) :
    LET e1 == seqlog[i]
        e2 == seqlog[i + 1]
    IN (e1.author # NoAuthor /\ IsAssign(e1, e1.tab, e1.author)
          /\ IsAssign(e2, e1.tab, e1.author)) =>
         /\ e1.bind # NoGroup
         /\ e2.bind = e1.bind
         /\ e2.grp = e2.bind
         /\ e2.live
         /\ ~e2.caught

C3_Witness ==
  \E i \in 1..(Len(seqlog) - 1) :
    /\ seqlog[i].author # NoAuthor
    /\ IsAssign(seqlog[i], seqlog[i].tab, seqlog[i].author)
    /\ IsAssign(seqlog[i + 1], seqlog[i].tab, seqlog[i].author)
    /\ seqlog[i + 1].path = "added"

\* the run began assign(t1, a), assign(t2, a), onTabRemoved(t1)
C4_Scenario(t1, t2, a) ==
  /\ t1 # t2
  /\ Len(seqlog) >= 3
  /\ IsAssign(seqlog[1], t1, a)
  /\ IsAssign(seqlog[2], t2, a)
  /\ IsRemove(seqlog[3], t1)

\* C4: after assign(t1, a), assign(t2, a), onTabRemoved(t1) the binding of a is still
\* there; after onTabRemoved(t2) it is deleted, whether the emptied group was destroyed
\* or left empty.
C4_GroupCleanup ==
  \A t1, t2 \in Tabs, a \in Authors :
    C4_Scenario(t1, t2, a) =>
      /\ seqlog[3].author = a
      /\ seqlog[3].bind # NoGroup
      /\ seqlog[3].bind = seqlog[2].bind
      /\ (Len(seqlog) >= 4 /\ IsRemove(seqlog[4], t2)) =>
           /\ seqlog[4].author = a
           /\ seqlog[4].bind = NoGroup
           /\ seqlog[4].path \in {"gone", "empty"}

C4_Witness ==
  \E t1, t2 \in Tabs, a \in Authors :
    /\ C4_Scenario(t1, t2, a)
    /\ Len(seqlog) >= 4
    /\ IsRemove(seqlog[4], t2)
    /\ seqlog[4].path = "empty"
    /\ authorGroups[a] = NoGroup

\* the same run, the emptied group destroyed by the browser before the handler ran
C4_WitnessDestroyed ==
  \E t1, t2 \in Tabs, a \in Authors :
    /\ C4_Scenario(t1, t2, a)
    /\ Len(seqlog) >= 4
    /\ IsRemove(seqlog[4], t2)
    /\ seqlog[4].path = "gone"

\* C5: an assign that finds the bound group gone ends with the author bound to a new,
\* existing group that holds the tab, and no error was caught on the way.
C5_StaleGroupRecovery ==
  \A i \in 1..Len(seqlog) :
    LET e == seqlog[i] IN
    (e.kind = "assign" /\ e.stale # NoGroup) =>
      /\ e.bind # NoGroup
      /\ e.bind # e.stale
      /\ e.live
      /\ e.grp = e.bind
      /\ ~e.caught
      /\ e.path = "created"

C5_Witness ==
  \E i \in 1..Len(seqlog) :
    /\ seqlog[i].kind = "assign"
    /\ seqlog[i].stale # NoGroup
    /\ authorGroups[seqlog[i].author] = seqlog[i].bind

(***************************************************************************)
(* The selection and extraction claims.                                    *)
(***************************************************************************)
\* the (liked index, author index) pairs that match, for a getPreferredAuthor call
MatchPairs(A, L) ==
  {p \in (1..Len(L)) \X (1..Len(A)) : isAuthorMatch(A[p[2]], L[p[1]])}

\* p comes first: an earlier liked name, or the same liked name and an earlier author
FirstPair(p, pairs) ==
  \A q \in pairs : p[1] < q[1] \/ (p[1] = q[1] /\ p[2] <= q[2])

\* C6: the result is the author of the first matching pair, liked names in priority
\* order outside and authors in document order inside; with the README's list and
\* preferred [Smith] it is Bob Smith.
C6_SelectPriorityOrder ==
  sel.called =>
    LET pairs == MatchPairs(sel.authors, sel.liked) IN
    /\ pairs # {} =>
         \E p \in pairs : FirstPair(p, pairs) /\ sel.result = sel.authors[p[2]]
    /\ (sel.authors = ReadmeExample /\ sel.liked = <<Smith>>) => sel.result = BobSmith

\* an earlier liked name wins over a later one whose author comes first in the paper,
\* and the chosen author is not the paper's first
C6_Witness ==
  /\ sel.called
  /\ sel.authors = ReadmeExample
  /\ sel.liked = <<Smith, Johnson>>
  /\ sel.result = BobSmith

\* C7: with no liked name, or none that matches, the result is the first author; with
\* no author it is absent.
C7_SelectFallback ==
  sel.called =>
    /\ sel.authors = <<>> => sel.result = NoName
    /\ (sel.authors # <<>> /\ MatchPairs(sel.authors, sel.liked) = {}) =>
         sel.result = sel.authors[1]

C7_Witness ==
  /\ sel.called
  /\ Len(sel.authors) >= 2
  /\ sel.liked # <<>>
  /\ MatchPairs(sel.authors, sel.liked) = {}
  /\ sel.result = sel.authors[1]

C7_WitnessNoAuthors ==
  sel.called /\ sel.authors = <<>> /\ sel.liked # <<>> /\ sel.result = NoName

\* C8: a record getPaperData returns with a non-empty authorsList has one of its
\* elements as firstAuthor.
C8_FirstAuthorInList ==
  (extracted.via # "none" /\ extracted.rec.authorsList # <<>>) =>
    \E i \in 1..Len(extracted.rec.authorsList) :
      extracted.rec.authorsList[i] = extracted.rec.firstAuthor

\* a record taken from the cache on a PDF page, its author chosen by the liked list
C8_Witness ==
  /\ extracted.via = "cached"
  /\ Len(extracted.rec.authorsList) = 2
  /\ extracted.rec.firstAuthor = extracted.rec.authorsList[2]
  /\ extracted.rec.firstAuthor # extracted.rec.authorsList[1]

C8_WitnessAbs ==
  extracted.via = "abs" /\ Len(extracted.rec.authorsList) = 2
    /\ extracted.rec.firstAuthor = extracted.rec.authorsList[2]

C8_WitnessFetch ==
  extracted.via = "fetch" /\ Len(extracted.rec.authorsList) = 2
    /\ extracted.rec.firstAuthor = extracted.rec.authorsList[2]

(***************************************************************************)
(* The cache claims.                                                       *)
(***************************************************************************)
\* what getCachedData does with a record found in the storage after a miss in
\* paperCache: promoted and returned, or removed and null returned
GetPromoted == cget.result = cget.found /\ cget.mem = cget.found
GetExpired ==
  cget.result = NoRec /\ cget.mem = NoRec /\ (cget.rmOk => cget.kept = NoRec)
GetFound == cget.done /\ cget.asked /\ cget.readOk /\ cget.found # NoRec

\* C9, as stated: a record in paperCache is returned; after a miss a stored record
\* aged 30 days or less is promoted and returned, an older one is removed and null
\* returned.
C9_AsStated ==
  /\ (cget.done /\ cget.was # NoRec) => (~cget.asked /\ cget.result = cget.was)
  /\ (GetFound /\ cget.age <= MaxAgeDays) => GetPromoted
  /\ (GetFound /\ cget.age > MaxAgeDays) => GetExpired

\* C9, amended: a record in paperCache is returned; after a miss a stored record aged
\* less than 30 days is promoted and returned, one aged 30 days or more is removed
\* (the removal is not awaited) and null returned.
C9_GetFreshOrExpired ==
  /\ (cget.done /\ cget.was # NoRec) => (~cget.asked /\ cget.result = cget.was)
  /\ (GetFound /\ cget.age < MaxAgeDays) => GetPromoted
  /\ (GetFound /\ cget.age >= MaxAgeDays) => GetExpired

\* a record exactly 30 days old is read after a miss: removed, null returned
C9_Witness ==
  /\ GetFound
  /\ cget.age = MaxAgeDays
  /\ cget.result = NoRec
  /\ cget.rmOk /\ storage[cget.id] = NoRec
  /\ ~MemHas(paperCache, cget.id)

C9_WitnessPromoted ==
  GetFound /\ cget.age = MaxAgeDays - 1 /\ cget.result = cget.found
    /\ MemLook(paperCache, cget.id) = cget.found

\* a record in paperCache is returned however old the stored one is
C9_WitnessHit ==
  /\ cget.done /\ ~cget.asked /\ cget.result = cget.was
  /\ storage[cget.id] # NoRec /\ now - storage[cget.id].ts > MaxAgeDays

\* a cleanupCache ends in its catch
CleanupFails ==
  \E op \in BagToSet(cops) :
    /\ op.kind = "cleanup" /\ op.pc \in {"allgot", "removed"} /\ ~op.ok
    /\ cops' = CDrop(op)

\* C10: a cacheData whose storage.set is accepted has the record in paperCache and in
\* the storage, whatever was there, and returns with its cleanupCache at an await; a
\* cleanupCache that fails changes neither tier nor what the cacheData returned.
C10_PutThenCleanup ==
  /\ [](cput.done =>
          /\ ~cput.threw
          /\ cput.setOk =>
               /\ cput.mem = cput.data
               /\ Unstamped(cput.stored) = cput.data /\ cput.stored.ts = cput.at
               /\ cput.passes >= 1)
  /\ [][CleanupFails =>
          /\ UNCHANGED <<paperCache, storage, others, cput>>
          /\ cclean'.done /\ cclean'.failed]_vars

\* a record is put over another of the same id, and the cleanupCache it started fails
C10_Witness ==
  /\ cput.done /\ cput.setOk
  /\ cput.was # NoRec /\ cput.was # cput.data
  /\ cclean.done /\ cclean.failed
  /\ cops = EmptyBag
  /\ MemLook(paperCache, cput.id) = cput.data
  /\ Unstamped(storage[cput.id]) = cput.data

\* the cacheData of document MemLimit + 1, the last of EvictIds, has returned
LastPutReturned == cput.done /\ cput.setOk /\ cput.id = MemLimit + 1

\* C11: paperCache never holds more than 100 entries, and when the 101st document has
\* been cached it holds none of the 20 cached first, whether or not one of them was
\* cached again or read in between.
C11_EvictOldestInserted ==
  /\ Len(paperCache) <= MemLimit
  /\ LastPutReturned => \A d \in 1..MemEvict : ~MemHas(paperCache, d)

\* document 1 was cached a second time just before the 101st, and is gone all the same
C11_Witness ==
  /\ LastPutReturned
  /\ Len(paperCache) = MemLimit + 1 - MemEvict
  /\ Unstamped(storage[1]) = PaperOfAlice
  /\ ~MemHas(paperCache, 1)
  /\ MemHas(paperCache, MemEvict + 1)

\* C12: a cleanupCache that found more than 200 document records removed 50 of them,
\* none with a timestamp greater than that of a record it left (no timestamp counting
\* as 0); one that found 200 or fewer, or that failed, removed nothing; the liked list
\* is never among the keys removed.
C12_StorageEviction ==
  cclean.done =>
    /\ LikedKey \notin cclean.removed
    /\ (cclean.failed \/ cclean.found <= StoreLimit) => cclean.removed = {}
    /\ (~cclean.failed /\ cclean.found > StoreLimit) =>
         /\ Cardinality(cclean.removed) = StoreEvict
         /\ cclean.newestGone <= cclean.oldestLeft

\* 201 records found beside the liked list: the 50 oldest are gone from the storage
C12_Witness ==
  /\ cclean.done /\ ~cclean.failed
  /\ cclean.found = StoreLimit + 1
  /\ Cardinality(cclean.removed) = StoreEvict
  /\ cclean.removed \cap OtherKeys(others) = {}
  /\ likedAuthors = <<Smith>>

\* exactly 200 records found: nothing removed
C12_WitnessAtLimit ==
  cclean.done /\ ~cclean.failed /\ cclean.found = StoreLimit /\ cclean.removed = {}

\* a PDF page load finds a stored record that is not too old and has no first author
FoundIncomplete ==
  storage[1] # NoRec /\ NotTooOld(storage[1].ts) /\ storage[1].firstAuthor = NoName

\* the background's getCachedData(1) would return a record without a first author
MemIncomplete == MemHas(paperCache, 1) /\ MemGet(paperCache, 1).firstAuthor = NoName

\* C13: a PDF page load that finds a stored record without a first author leaves the
\* record in neither tier: the background's paperCache does not hold a record without
\* a first author for the document after it, so that getCachedData would not return
\* one.
C13_RemoveBothTiers ==
  [][(FoundIncomplete /\ PdfLookup) => ~MemIncomplete']_vars

\* the record was removed from the storage, and getCachedData then returned the record
\* without a first author from paperCache, without asking the storage
C13_Reached ==
  /\ cget.done /\ ~cget.asked
  /\ cget.result # NoRec /\ cget.result.firstAuthor = NoName
  /\ extracted.via = "fetch"
  /\ storage[1] # NoRec /\ storage[1].firstAuthor # NoName

\* C15: a tab closed while an updateTabTitle for it is between its title update and
\* its grouping has no tabAuthors entry once the handlers have ended: with no handler in
\* progress, no closed tab has an entry.
C15_NoEntryAfterRemoval ==
  Quiescent => \A t \in Tabs \ tabOpen : tabAuthors[t] = NoAuthor

\* the handlers have ended, the closed tab has the author of the update that was in
\* flight when it closed, and no group was made for it
C15_Reached ==
  /\ Quiescent
  /\ \E t \in Tabs \ tabOpen :
       /\ tabAuthors[t] # NoAuthor
       /\ authorGroups[tabAuthors[t]] = NoGroup
       /\ [kind |-> "remove", tab |-> t, author |-> NoAuthor] \in BagToSet(started)

\* the invocation goes on past an await: to manageAuthorGrouping, or the browser
\* carries out its chrome.tabs.group
Applies(op) == AfterTitle(op) \/ HostGroupCreate(op) \/ HostGroupAdd(op) \/ AfterAdd(op)

\* the tab no longer displays the document the invocation was made for
IsStale(op) == op.kind = "assign" /\ tabDoc[op.tab] # op.doc

\* C14: an updateTabTitle made for a document the tab no longer displays changes
\* neither the tab's tabAuthors entry nor the group the tab is in.
C14_NoStaleAssignment ==
  [][\A op \in InFlight :
       (IsStale(op) /\ Applies(op)) =>
         /\ tabAuthors'[op.tab] = tabAuthors[op.tab]
         /\ tabGroup'[op.tab] = tabGroup[op.tab]]_vars

\* the tab has navigated once, and the only invocation started, made before that, has
\* ended: the tab is bound to its author and sits in the author's group
C14_Reached ==
  /\ Quiescent
  /\ BagCardinality(started) = 1
  /\ \E t \in tabOpen :
       /\ tabDoc[t] = 1
       /\ tabAuthors[t] # NoAuthor
       /\ tabGroup[t] # NoGroup
       /\ tabGroup[t] = authorGroups[tabAuthors[t]]

\* C16: a cacheData whose storage.set is rejected does not throw and has the record
\* in paperCache all the same; a getCachedData whose storage.get is rejected returns
\* null and does not throw.
C16_DegradeToMemory ==
  /\ (cput.done /\ ~cput.setOk) => (~cput.threw /\ cput.mem = cput.data)
  /\ (cget.done /\ cget.asked /\ ~cget.readOk) => cget.result = NoRec

\* the storage.set was rejected and paperCache has no record of the document
C16_Reached ==
  cput.done /\ ~cput.setOk /\ ~cput.threw /\ cput.mem = NoRec /\ ~MemHas(paperCache, cput.id)

\* the storage.get was rejected: null, though the storage holds a fresh record
C16_ReadFailed ==
  /\ cget.done /\ cget.asked /\ ~cget.readOk /\ cget.result = NoRec
  /\ storage[cget.id] # NoRec /\ IsFresh(storage[cget.id].ts)

\* the PDF page load whose fetch brought page, the storage answering or not
PdfLoad(page) == \E readOk \in BOOLEAN : PdfPage(1, readOk, page, TRUE)

\* the invocation is at chrome.tabs.update or goes on after it
TitleStep(op) == HostTabsUpdate(op) \/ AfterTitle(op)

\* C17: the record of a PDF page load whose fetch failed has the title made of the
\* document id and no author, author list or category; the title update sent for it
\* starts an updateTabTitle without an author, and such an invocation changes no
\* group, binding or tabAuthors entry; the next PDF page load whose fetch brings a
\* complete page returns that page's record and stores it.
C17_PlaceholderThenRetry ==
  /\ [](extracted.via = "placeholder" =>
          /\ extracted.rec.title = "ArXiv " \o ToString(extracted.id)
          /\ extracted.rec.firstAuthor = NoName
          /\ extracted.rec.authorsList = <<>>
          /\ extracted.rec.category = NoCategory)
  /\ [][(extracted.via = "placeholder" /\ DeliverTitle) =>
          NewAssign(1, NoAuthor) \in BagToSet(ops')]_vars
  /\ [][\A op \in InFlight :
          (op.kind = "assign" /\ op.author = NoAuthor /\ TitleStep(op)) =>
            /\ UNCHANGED <<tabGroup, liveGroups, authorGroups, tabAuthors>>
            /\ op.pc = "titled" => ops' = EmptyBag]_vars
  /\ [][\A page \in SubjectPages :
          (extracted.via = "placeholder" /\ PageComplete(page) /\ PdfLoad(page)) =>
            /\ extracted'.via = "fetch"
            /\ extracted'.rec = PageData(page, likedAuthors)
            /\ storage'[1] = Stamped(extracted'.rec)]_vars

\* a fetch failed, its title update was handled and left the tab ungrouped and without
\* an author, the placeholder was stored; the next load fetched the complete record
C17_Witness ==
  /\ extracted.via = "fetch"
  /\ extracted.rec.firstAuthor = BobSmith
  /\ extracted.rec.category # NoCategory
  /\ [kind |-> "assign", tab |-> 1, author |-> NoAuthor] \in BagToSet(started)
  /\ Quiescent
  /\ tabGroup[1] = NoGroup /\ tabAuthors[1] = NoAuthor /\ liveGroups = {}
  /\ now = 0

\* the fetch failed and the placeholder is what the storage holds
C17_WitnessPlaceholder ==
  /\ extracted.via = "placeholder"
  /\ storage[1] # NoRec /\ storage[1].firstAuthor = NoName
  /\ storage[1].title = "ArXiv 1"

\* C18: an updateTabTitle for a record without firstAuthor runs without an author, never
\* reaches the grouping, and its steps leave the groups, authorGroups and tabAuthors as
\* they are.
C18_NoAuthorNoGroup ==
  /\ [](\A op \in InFlight :
          (op.kind = "assign" /\ op.author = NoAuthor) =>
            op.pc \in {"title", "titled"} /\ op.gid = NoGroup)
  /\ [][\A t \in Tabs :
          updateTabTitle(t, NoAuthor) =>
            \E op \in BagToSet(ops') :
              op.kind = "assign" /\ op.tab = t /\ op.author = NoAuthor]_vars
  /\ [][\A op \in InFlight :
          (op.kind = "assign" /\ op.author = NoAuthor
             /\ (HostTabsUpdate(op) \/ AfterTitle(op))) =>
            /\ UNCHANGED <<tabGroup, liveGroups, nextGroup, authorGroups, tabAuthors>>
            /\ AfterTitle(op) => Quiescent']_vars

\* a tab bound to an author and grouped was sent a record without firstAuthor: the
\* update has ended, the tab is still bound and in the author's group
C18_Witness ==
  /\ Quiescent
  /\ Len(seqlog) >= 2
  /\ LET e == seqlog[Len(seqlog)] IN
       /\ e.kind = "assign" /\ e.author = NoAuthor /\ e.path = "noauthor"
       /\ tabAuthors[e.tab] # NoAuthor
       /\ tabGroup[e.tab] # NoGroup
       /\ authorGroups[tabAuthors[e.tab]] = tabGroup[e.tab]


(***************************************************************************)
(* TitleSpec: updateTabTitle's composition of the title, over page data    *)
(* whose title runs from one character to past the cut, with and without   *)
(* a first author and a category.                                          *)
(***************************************************************************)
MaxTitleLen == 64

LongTitle ==
  "A Very Long Title About Deep Learning Methods For Natural Language Understanding Tasks"

TitleAuthors == {NoName, BobSmith, Lee, SmithJ, "Mary Ann Lee", "Lee, Mary Ann"}

TitleCategories ==
  {NoCategory, "cs.CL", "Computation and Language (cs.CL)", "math",
   "Machine Learning (stat.ML)"}

\* the paperData records getPaperData can hand to updateTabTitle
TitleInputs ==
  {[title |-> SubSeq(LongTitle, 1, n),
    authorsList |-> IF a = NoName THEN <<>> ELSE <<a>>,
    category |-> c, firstAuthor |-> a] :
     n \in 1..MaxTitleLen, a \in TitleAuthors, c \in TitleCategories}

\* updateTabTitle(this.paperData) up to the assignment of this.targetTitle
BuildTitle ==
  /\ extracted.via = "abs"
  /\ targetTitle' = newTitle(extracted.rec)
  /\ UNCHANGED <<extracted, sel, ret, popup, likedAuthors, storage, now, ticks, watch>>
  /\ UNCHANGED <<gvars, cvars>>

TitleNext == BuildTitle

TitleInit ==
  /\ GInit(0, 0)
  /\ StIdle
  /\ CIdle
  /\ likedAuthors = <<>>
  /\ sel = NoSel
  /\ targetTitle = NoTitle
  /\ ret = NoRet
  /\ popup = NoPopup
  /\ watch = NoWatch
  /\ \E paperData \in TitleInputs : extracted = [via |-> "abs", id |-> 1, rec |-> paperData]

TitleSpec == TitleInit /\ [][TitleNext]_vars

\* C19: the author prefix comes first, then the cut, then the category prefix.  With
\* aug the title behind "<short author>: " (the bare title without a first author),
\* the built title is an optional "[tag] " followed by body, where body is aug itself
\* when aug has at most 60 characters and else aug's first 57 characters and "...",
\* which are exactly 60 characters: what follows the category prefix is never longer
\* than 60 characters, whatever the length of the whole.
C19_AuthorCutCategory ==
  targetTitle # NoTitle =>
    LET p == extracted.rec
        aug == IF p.firstAuthor = NoName THEN p.title
               ELSE getShortAuthorName(p.firstAuthor) \o ": " \o p.title
        body == IF Len(aug) <= 60 THEN aug ELSE SubSeq(aug, 1, 57) \o "..."
        n == Len(targetTitle)
        k == n - Len(body)
    IN /\ Len(body) <= 60
       /\ (Len(aug) > 60 => Len(body) = 60)
       /\ k >= 0
       /\ SubSeq(targetTitle, k + 1, n) = body
       /\ (p.category = NoCategory => k = 0)
       /\ (p.category # NoCategory =>
             /\ k >= 3
             /\ CharAt(targetTitle, 1) = "["
             /\ SubSeq(targetTitle, k - 1, k) = "] "
             /\ IndexOf(SubSeq(targetTitle, 1, k), "]") = k - 1)

\* a title with author and category whose augmented form is past the cut: the whole
\* title is longer than 60 characters
C19_Witness ==
  /\ targetTitle # NoTitle
  /\ extracted.rec.firstAuthor = BobSmith
  /\ extracted.rec.category = "cs.CL"
  /\ Len(extracted.rec.title) = MaxTitleLen
  /\ Len(targetTitle) = 65
  /\ SubSeq(targetTitle, 1, 12) = "[cs] Smith: "
  /\ SubSeq(targetTitle, 63, 65) = "..."

\* an augmented title of exactly 60 characters is left as it is
C19_WitnessAtLimit ==
  /\ targetTitle # NoTitle
  /\ extracted.rec.firstAuthor = NoName
  /\ extracted.rec.category = NoCategory
  /\ Len(extracted.rec.title) = 60
  /\ targetTitle = extracted.rec.title

\* C20: with a category, the built title begins with "[tag] ", where tag is what
\* stands before the first "." of the text in parentheses if the category has
\* parentheses, and of the whole category otherwise: "Computation and Language
\* (cs.CL)" and "cs.CL" both give "[cs] ".
C20_CategoryTag ==
  (targetTitle # NoTitle /\ extracted.rec.category # NoCategory) =>
    LET c == extracted.rec.category
        open == IndexOf(c, "(")
        close == IndexOf(c, ")")
        inner == IF open # 0 /\ close > open + 1
                   THEN SubSeq(c, open + 1, close - 1) ELSE c
        dot == IndexOf(inner, ".")
        tag == IF dot = 0 THEN inner ELSE SubSeq(inner, 1, dot - 1)
    IN /\ SubSeq(targetTitle, 1, Len(tag) + 3) = "[" \o tag \o "] "
       /\ (c \in {"Computation and Language (cs.CL)", "cs.CL"} => tag = "cs")
       /\ (c \in {"Computation and Language (cs.CL)", "cs.CL"} =>
             SubSeq(targetTitle, 1, 5) = "[cs] ")

\* the subject line of an abstract page gives the tag of its archive
C20_Witness ==
  /\ extracted.rec.category = "Computation and Language (cs.CL)"
  /\ extracted.rec.firstAuthor = NoName
  /\ extracted.rec.title = "A Very"
  /\ targetTitle = "[cs] A Very"

\* a bare category identifier gives the same tag
C20_WitnessBare ==
  /\ extracted.rec.category = "cs.CL"
  /\ extracted.rec.firstAuthor = Lee
  /\ extracted.rec.title = "A Very"
  /\ targetTitle = "[cs] Lee: A Very"


(***************************************************************************)
(* HelperSpec: the helper functions of the content script and of the       *)
(* background, each called on the texts below; ret keeps the last call and *)
(* the number of calls made.                                               *)
(***************************************************************************)
\* author names as parseAuthors leaves them, and names written "Last, First"
HelperNames ==
  {Lee, Smith, BobSmith, AliceJohnson, JohnSmith, JSmith, SmithJ, "Mary Ann Lee",
   "Lee, Mary Ann", "Smith, John A.", "Jean Luc van Damme", "polygenelubricants"}

\* the background's short name with the first of two parts taken
shortAuthor_FirstPart(fullName) ==
  IF fullName = NoName THEN "Unknown"
  ELSE LET parts == SelectSeq(Split(fullName, " "), NonEmptyPart) IN
       IF Len(parts) <= 2 THEN parts[1]
       ELSE IF IndexOf(fullName, ",") # 0 THEN DropFirst(parts[1], ",")
       ELSE parts[Len(parts)]

\* the background's getShortAuthorName, whose result manageAuthorGrouping names
\* shortAuthor and gives to the group as its title
shortAuthor(fullName) ==
  IF fullName = NoName THEN "Unknown"
  ELSE LET parts == SelectSeq(Split(fullName, " "), NonEmptyPart) IN
       IF Len(parts) = 1 THEN parts[1]
       ELSE IF Len(parts) = 2 THEN parts[2]
       ELSE IF IndexOf(fullName, ",") # 0 THEN DropFirst(parts[1], ",")
       ELSE parts[Len(parts)]

\* the same name shortened for a group's title and for a tab's title
CallShort(name) ==
  /\ ret.n = 0
  /\ ret' = [fn |-> "short", n |-> 1, arg |-> name,
             label |-> shortAuthor(name), prefix |-> getShortAuthorName(name)]
  /\ UNCHANGED <<extracted, sel, targetTitle, popup, likedAuthors, storage, now, ticks, watch>>
  /\ UNCHANGED <<gvars, cvars>>

\* fragments of an authors text between its commas
MaxFragments == 2

Fragments ==
  {"", "  ", " Alice Johnson", " and Carol Davis", "Anderson", " & Bob Smith ",
   "AND  Lee", "&Co", "Bob \t Smith", "and", "\nand\nAndy  And", "and & Lee",
   " Mary Ann  Lee"}

\* the authors line of the README's example
ReadmeFragments == <<"Alice Johnson", " Bob Smith", " and Carol Davis">>

RECURSIVE Join(_, _)
Join(parts, c) ==
  IF Len(parts) = 0 THEN ""
  ELSE IF Len(parts) = 1 THEN parts[1]
  ELSE parts[1] \o c \o Join(Tail(parts), c)

\* the texts div.authors can hold, as the fragments they are made of
ParseInputs ==
  {ReadmeFragments} \cup UNION {[1..n -> Fragments] : n \in 1..MaxFragments}

\* String.prototype.trim on a text
TrimText(str) ==
  LET keep == {i \in 1..Len(str) : ~IsSpace(CharAt(str, i))} IN
  IF keep = {} THEN ""
  ELSE SubSeq(str, CHOOSE i \in keep : \A j \in keep : i <= j,
                   CHOOSE i \in keep : \A j \in keep : i >= j)

LowerChar(c) == IF c \in DOMAIN UpperToLower THEN UpperToLower[c] ELSE c

\* the length of the match of /^(and|&)/i at the start of str, 0 if none
LeadWord(str) ==
  IF /\ Len(str) >= 3
     /\ LowerChar(CharAt(str, 1)) = "a"
     /\ LowerChar(CharAt(str, 2)) = "n"
     /\ LowerChar(CharAt(str, 3)) = "d"
    THEN 3
  ELSE IF Len(str) >= 1 /\ CharAt(str, 1) = "&" THEN 1
  ELSE 0

\* the first place from i on that holds no whitespace (Len(str) + 1 if none)
RECURSIVE SkipSpace(_, _)
SkipSpace(str, i) ==
  IF i <= Len(str) /\ IsSpace(CharAt(str, i)) THEN SkipSpace(str, i + 1) ELSE i

\* the leading word dropped with or without whitespace after it
StripLead_AnyPrefix(str) == SubSeq(str, SkipSpace(str, LeadWord(str) + 1), Len(str))

\* replace(/^(and|&)\s+/i, '')
StripLead(str) ==
  LET w == LeadWord(str) IN
  IF w # 0 /\ w < Len(str) /\ IsSpace(CharAt(str, w + 1))
    THEN SubSeq(str, SkipSpace(str, w + 1), Len(str))
    ELSE str

\* replace(/\s+/g, ' ')
RECURSIVE Collapse(_)
Collapse(str) ==
  IF str = "" THEN ""
  ELSE IF IsSpace(CharAt(str, 1))
    THEN " " \o Collapse(SubSeq(str, SkipSpace(str, 1), Len(str)))
    ELSE CharAt(str, 1) \o Collapse(SubSeq(str, 2, Len(str)))

\* the function parseAuthors maps over the fragments
CleanAuthor(author) == TrimText(Collapse(StripLead(TrimText(author))))

\* parseAuthors that keeps what is left of every fragment
parseAuthors_KeepAll(authorsString) ==
  IF authorsString = "" THEN <<>>
  ELSE LET parts == Split(authorsString, ",") IN
       [i \in 1..Len(parts) |-> CleanAuthor(parts[i])]

\* parseAuthors that takes the text for one name
parseAuthors_NoSplit(authorsString) ==
  IF authorsString = "" THEN <<>>
  ELSE SelectSeq(<<CleanAuthor(authorsString)>>, NonEmptyPart)

parseAuthors(authorsString) ==
  IF authorsString = "" THEN <<>>
  ELSE LET parts == Split(authorsString, ",") IN
       SelectSeq([i \in 1..Len(parts) |-> CleanAuthor(parts[i])], NonEmptyPart)

\* getShortAuthorName's test for the "Last, First" format: three parts or more, and
\* fullName.includes(',')
LastFirstFormat(fullName) ==
  /\ Len(SelectSeq(Split(fullName, " "), NonEmptyPart)) >= 3
  /\ IndexOf(fullName, ",") # 0

\* parseAuthors on the text made of the fragments parts, and getShortAuthorName on
\* each of the names it returns, any of which getPreferredAuthor may return
CallParse(parts) ==
  /\ ret.n = 0
  /\ \E authorsList \in {parseAuthors(Join(parts, ","))} :
       ret' = [fn |-> "parse", n |-> 1, parts |-> parts, arg |-> Join(parts, ","),
               out |-> authorsList,
               short |-> [i \in DOMAIN authorsList |-> getShortAuthorName(authorsList[i])],
               lastFirst |-> [i \in DOMAIN authorsList |-> LastFirstFormat(authorsList[i])]]
  /\ UNCHANGED <<extracted, sel, targetTitle, popup, likedAuthors, storage, now, ticks, watch>>
  /\ UNCHANGED <<gvars, cvars>>

\* the names isAuthorMatch is called on, as an author's name and as a liked name
MatchNames == DOMAIN Chars

CallMatch(fullAuthorName, likedAuthorName) ==
  /\ ret.n = 0
  /\ ret' = [fn |-> "match", n |-> 1, full |-> fullAuthorName, liked |-> likedAuthorName,
             out |-> isAuthorMatch(fullAuthorName, likedAuthorName)]
  /\ UNCHANGED <<extracted, sel, targetTitle, popup, likedAuthors, storage, now, ticks, watch>>
  /\ UNCHANGED <<gvars, cvars>>

\* calls of generateAuthorColor in a run
MaxCalls == 2

\* the names and the descriptors of the calls of generateAuthorColor made so far
SeenColors == IF ret.fn = "color" THEN ret.seen ELSE {}

\* updateTabTitle's call of generateAuthorColor, after any other call or first
CallColor(name) ==
  /\ ret.n < MaxCalls
  /\ \E color \in {generateAuthorColor(name)} :
       ret' = [fn |-> "color", n |-> ret.n + 1, arg |-> name, out |-> color,
               seen |-> SeenColors \cup {<<name, color>>}]
  /\ UNCHANGED <<extracted, sel, targetTitle, popup, likedAuthors, storage, now, ticks, watch>>
  /\ UNCHANGED <<gvars, cvars>>

HelperNext ==
  \/ \E name \in HelperNames : CallShort(name)
  \/ \E name \in HelperNames \cup {NoName} : CallColor(name)
  \/ \E full \in MatchNames, liked \in MatchNames : CallMatch(full, liked)
  \/ \E parts \in ParseInputs : CallParse(parts)

HelperInit ==
  /\ GInit(0, 0)
  /\ StIdle
  /\ SIdle
  /\ CIdle

HelperSpec == HelperInit /\ [][HelperNext]_vars

C21_WitnessTwo ==
  /\ ret.fn = "short"
  /\ ret.arg = BobSmith
  /\ ret.label = Smith
  /\ ret.prefix = Smith


\* C22: what parseAuthors returns holds no empty name and no name with whitespace
\* at its start or at its end, whatever the text; for the empty (or absent) text it
\* returns the empty list.
C22_ParseClean ==
  ret.fn = "parse" =>
    /\ ret.out \in Seq({ret.out[i] : i \in DOMAIN ret.out})
    /\ \A i \in DOMAIN ret.out :
         /\ ret.out[i] # ""
         /\ ~IsSpace(SubSeq(ret.out[i], 1, 1))
         /\ ~IsSpace(SubSeq(ret.out[i], Len(ret.out[i]), Len(ret.out[i])))
    /\ (ret.arg = "" => ret.out = <<>>)

\* a text with an empty fragment and a fragment with spaces around the name
C22_Witness ==
  /\ ret.fn = "parse"
  /\ ret.parts = <<"", " & Bob Smith ">>
  /\ ret.arg = ", & Bob Smith "
  /\ ret.out = <<BobSmith>>

\* the empty text
C22_WitnessEmpty ==
  /\ ret.fn = "parse"
  /\ ret.arg = ""
  /\ ret.out = <<>>

\* C23: parseAuthors splits the text at its commas and keeps the fragments' order;
\* of each fragment it drops a leading "and" or "&", in either case of letters, only
\* if whitespace follows it, and makes one space of every run of whitespace inside.
\* "Alice Johnson, Bob Smith, and Carol Davis" gives Alice Johnson, Bob Smith, Carol
\* Davis, and "Anderson" stays as it is.
C23_ParseFragments ==
  ret.fn = "parse" =>
    LET name == "" :> "" @@ "  " :> "" @@ " Alice Johnson" :> AliceJohnson @@
                "Alice Johnson" :> AliceJohnson @@ " Bob Smith" :> BobSmith @@
                " and Carol Davis" :> CarolDavis @@ "Anderson" :> "Anderson" @@
                " & Bob Smith " :> BobSmith @@ "AND  Lee" :> Lee @@ "&Co" :> "&Co" @@
                "Bob \t Smith" :> BobSmith @@ "and" :> "and" @@
                "\nand\nAndy  And" :> "Andy And" @@ "and & Lee" :> "& Lee" @@
                " Mary Ann  Lee" :> "Mary Ann Lee"
        named == [i \in 1..Len(ret.parts) |-> name[ret.parts[i]]]
    IN /\ ret.out = SelectSeq(named, NonEmptyPart)
       /\ (ret.arg = "Alice Johnson, Bob Smith, and Carol Davis" =>
             ret.out = <<AliceJohnson, BobSmith, CarolDavis>>)

\* the README's line parsed to its three names
C23_Witness ==
  /\ ret.fn = "parse"
  /\ ret.arg = "Alice Johnson, Bob Smith, and Carol Davis"
  /\ ret.out = ReadmeExample

\* a name that begins with the letters of "and", after a fragment that loses its "AND"
C23_WitnessAnderson ==
  /\ ret.fn = "parse"
  /\ ret.arg = "AND  Lee,Anderson"
  /\ ret.out = <<Lee, "Anderson">>


\* C24: isAuthorMatch holds exactly when one of the two names, in lower case, without
\* its "." and "," and without whitespace at its ends, is part of the other: "John
\* Smith" and "Smith, J." match "Smith", "Johnson" does not.
C24_MatchIsContainment ==
  ret.fn = "match" =>
    LET norm == AliceJohnson :> "alice johnson" @@ BobSmith :> "bob smith" @@
                CarolDavis :> "carol davis" @@ JSmith :> "j smith" @@
                Smith :> "smith" @@ Johnson :> "johnson" @@ SmithJ :> "smith j" @@
                JohnSmith :> "john smith" @@ DAVIS :> "davis" @@ Lee :> "lee" @@
                SmithDot :> "smith" @@ Dot :> "" @@ "" :> ""
        partOf(a, b) == \E i \in 0..(Len(b) - Len(a)) : SubSeq(b, i + 1, i + Len(a)) = a
        a == norm[ret.full]
        b == norm[ret.liked]
    IN /\ ret.out <=> (partOf(a, b) \/ partOf(b, a))
       /\ (ret.full \in {JohnSmith, SmithJ} /\ ret.liked = Smith => ret.out)
       /\ (ret.full = Johnson /\ ret.liked = Smith => ~ret.out)

\* "Smith, J." matches the liked name "Smith"
C24_Witness ==
  /\ ret.fn = "match"
  /\ ret.full = SmithJ
  /\ ret.liked = Smith
  /\ ret.out

\* "Johnson" does not match "Smith"
C24_WitnessNoMatch ==
  /\ ret.fn = "match"
  /\ ret.full = Johnson
  /\ ret.liked = Smith
  /\ ~ret.out

\* the shorter name may be the author's: "Smith" matches the liked name "John Smith"
C24_WitnessReverse ==
  /\ ret.fn = "match"
  /\ ret.full = Smith
  /\ ret.liked = JohnSmith
  /\ ret.out


C25_WitnessAfterOther ==
  /\ ret.fn = "color"
  /\ ret.n = 2
  /\ ret.arg = Lee
  /\ \E p \in ret.seen : p[1] = BobSmith

\* the call without a name
C25_WitnessAbsent ==
  /\ ret.fn = "color"
  /\ ret.arg = NoName
  /\ ret.out = NoColor

\* C26: for every name that is not empty, also one whose hash is -2^31, the hue is
\* in 0..359, the saturation in 45..64 and the lightness in 85..94; the background
\* is the tone of these three and the border the tone of the hue, the saturation
\* plus 20 and the lightness minus 30.
C26_ColorRanges ==
  (ret.fn = "color" /\ ret.arg # NoName) =>
    /\ ret.out.hue \in 0..359
    /\ \E saturation \in 45..64, lightness \in 85..94 :
         /\ ret.out.background =
              "hsl(" \o ToString(ret.out.hue) \o ", " \o ToString(saturation) \o "%, "
                     \o ToString(lightness) \o "%)"
         /\ ret.out.border =
              "hsl(" \o ToString(ret.out.hue) \o ", " \o ToString(saturation + 20) \o "%, "
                     \o ToString(lightness - 30) \o "%)"

\* a name whose hash is -2^31
C26_Witness ==
  /\ ret.fn = "color"
  /\ ret.arg = "polygenelubricants"
  /\ ToInt32(HashLoop([hi |-> 0, lo |-> 0], ret.arg, 1)) + 1 = -2147483647
  /\ ret.out = [background |-> "hsl(128, 53%, 93%)", border |-> "hsl(128, 73%, 63%)",
                hue |-> 128]

\* a name with a positive hash
C26_WitnessPositive ==
  /\ ret.fn = "color"
  /\ ret.arg = Lee
  /\ ret.out = [background |-> "hsl(308, 53%, 93%)", border |-> "hsl(308, 73%, 63%)",
                hue |-> 308]


(***************************************************************************)
(* ColorSpec: the grouping handlers, one after the other, started by the   *)
(* content script's message and by handleTabUpdate with a cached record.   *)
(***************************************************************************)
ColorOps == 3

\* handleTabUpdate's call updateTabTitle(tabId, title, cachedData): no authorColor
CachedAssign(t, a) == [NewAssign(t, a) EXCEPT !.authorColor = NoColor]

\* handleTabUpdate for a tab that has loaded a document whose record getCachedData
\* returned, with a title and the first author a
handleTabUpdate(t, a) ==
  /\ t \in tabOpen
  /\ Begin(CachedAssign(t, a))
  /\ UNCHANGED <<tabOpen, tabGroup, liveGroups, nextGroup, authorGroups, tabAuthors>>

ColorNext ==
  \/ GNext
  \/ \E t \in Tabs, a \in Authors : handleTabUpdate(t, a) /\ GFrame

ColorInit == GInit(ColorOps, 1) /\ StIdle /\ SIdle /\ CIdle

ColorSpec == ColorInit /\ [][ColorNext]_vars

\* the invocations whose chrome.tabGroups.update, with the title and the color of the
\* new group, was accepted
GroupsColored == {op \in InFlight : op.kind = "assign" /\ op.pc = "updated" /\ op.res = "ok"}

\* C27: a group created for an author, after a message of the content script or after
\* handleTabUpdate found a cached record, gets the color colors[floor(hue / 360 * 8)
\* mod 8] for the hue of generateAuthorColor(author); the index is in 0..7 for every
\* hue in 0..359, and groups created for one author get one color.
C27_GroupColorOfAuthor ==
  /\ \A hue \in 0..359 :
       /\ ((hue * 8) \div 360) % 8 \in 0..7
       /\ getTabGroupColor(hue) = colors[(((hue * 8) \div 360) % 8) + 1]
  /\ \A op \in GroupsColored :
       op.color = colors[(((generateAuthorColor(op.author).hue * 8) \div 360) % 8) + 1]

\* a group created for Bob Smith on a message of the content script is yellow
C27_ByMessage ==
  \E op \in GroupsColored :
    /\ op.author = BobSmith
    /\ op.authorColor # NoColor
    /\ op.color = "yellow"

\* a group created for Bob Smith by handleTabUpdate is grey
C27_ByCachedRecord ==
  \E op \in GroupsColored :
    /\ op.author = BobSmith
    /\ op.authorColor = NoColor
    /\ op.color = "grey"


(***************************************************************************)
(* PopupSpec: the popup's liked-authors list.  The popup loads the list    *)
(* when it opens; addLikedAuthor and removeLikedAuthor change              *)
(* this.likedAuthors and issue chrome.storage.local.set with the new list, *)
(* which the browser accepts or rejects later, in the order of the calls.  *)
(* popup.n counts the user's actions and popup.last is the last of them,   *)
(* with the list it found.                                                 *)
(***************************************************************************)
\* add and remove actions of the user in a run
MaxUserActions == 3

\* what the user may have typed into add-author-input
AddValues == {"", "  ", Smith, " Smith ", Lee, Johnson}

\* the names with a remove button
RemoveNames == {Smith, Lee, Johnson}

PopupFrame ==
  /\ UNCHANGED <<storage, now, ticks, extracted, sel, targetTitle, ret, watch>>
  /\ UNCHANGED <<gvars, cvars>>

\* init up to setupEventListeners: loadLikedAuthors reads the stored list, and has the
\* empty list when the read fails
OpenPopup(readOk) ==
  /\ ~popup.open
  /\ popup.writes = <<>>
  /\ popup' = [popup EXCEPT !.open = TRUE,
                            !.likedAuthors = IF readOk THEN likedAuthors ELSE <<>>]
  /\ UNCHANGED likedAuthors
  /\ PopupFrame

\* the popup is closed: its PopupManager is gone, the writes it issued are not
ClosePopup ==
  /\ popup.open
  /\ popup' = [popup EXCEPT !.open = FALSE, !.likedAuthors = <<>>, !.clear = NoClearing]
  /\ UNCHANGED likedAuthors
  /\ PopupFrame

\* no name counts as present
Listed_Never(list, authorName) == FALSE

\* this.likedAuthors.includes(authorName)
Listed(list, authorName) == \E i \in 1..Len(list) : list[i] = authorName

\* addLikedAuthor with value in the input field, up to its await
addLikedAuthor(value) ==
  /\ popup.open
  /\ popup.n < MaxUserActions
  /\ \E authorName \in {TrimText(value)} :
       IF authorName = "" \/ Listed(popup.likedAuthors, authorName)
         THEN popup' = [popup EXCEPT !.n = @ + 1, !.last = <<"add", value, popup.likedAuthors>>]
         ELSE popup' = [popup EXCEPT !.n = @ + 1, !.last = <<"add", value, popup.likedAuthors>>,
                                     !.likedAuthors = Append(@, authorName),
                                     !.writes = Append(@, Append(popup.likedAuthors, authorName))]
  /\ UNCHANGED likedAuthors
  /\ PopupFrame

\* this.likedAuthors.filter(author => author !== authorName)
Without(list, authorName) ==
  LET Other(author) == author # authorName IN SelectSeq(list, Other)

\* removeLikedAuthor(authorName), up to its await
removeLikedAuthor(authorName) ==
  /\ popup.open
  /\ popup.n < MaxUserActions
  /\ popup' = [popup EXCEPT !.n = @ + 1, !.last = <<"remove", authorName, popup.likedAuthors>>,
                            !.likedAuthors = Without(@, authorName),
                            !.writes = Append(@, Without(popup.likedAuthors, authorName))]
  /\ UNCHANGED likedAuthors
  /\ PopupFrame

\* the browser answers the oldest chrome.storage.local.set({likedAuthors}): the list
\* is stored, or the call is rejected and the handler's catch logs it
HostSetLiked(ok) ==
  /\ popup.writes # <<>>
  /\ likedAuthors' = IF ok THEN Head(popup.writes) ELSE likedAuthors
  /\ popup' = [popup EXCEPT !.writes = Tail(@)]
  /\ PopupFrame

PopupNext ==
  \/ \E readOk \in BOOLEAN : OpenPopup(readOk)
  \/ ClosePopup
  \/ \E value \in AddValues : addLikedAuthor(value)
  \/ \E authorName \in RemoveNames : removeLikedAuthor(authorName)
  \/ \E ok \in BOOLEAN : HostSetLiked(ok)

PopupInit == GInit(0, 0) /\ StIdle /\ SIdle /\ CIdle

PopupSpec == PopupInit /\ [][PopupNext]_vars

\* no name twice and no empty name
Curated(list) ==
  /\ \A i \in 1..Len(list) : list[i] # ""
  /\ \A i \in 1..Len(list) : \A j \in 1..Len(list) : list[i] = list[j] => i = j

\* the names of short are names of long, in the order they have in long
KeepsOrder(short, long) ==
  \A i \in 1..Len(short) : \A j \in 1..Len(short) :
    i < j => \E k \in 1..Len(long) : \E l \in 1..Len(long) :
               k < l /\ long[k] = short[i] /\ long[l] = short[j]

\* C28: after any adds and removes the liked list, in the popup, in every write on its
\* way and in the storage, has no name twice and no empty name; an add puts the new
\* name after the names already there, so the names stand in the order of their
\* adding; an add of a name that is there, or of no name, changes nothing; a remove
\* takes the name out and leaves the other names in their order.
C28_LikedListCurated ==
  /\ [](/\ Curated(popup.likedAuthors)
        /\ Curated(likedAuthors)
        /\ \A i \in 1..Len(popup.writes) : Curated(popup.writes[i]))
  /\ [][\A value \in AddValues : addLikedAuthor(value) =>
          LET typed == "" :> "" @@ "  " :> "" @@ Smith :> Smith @@ " Smith " :> Smith @@
                       Lee :> Lee @@ Johnson :> Johnson
              old == popup.likedAuthors
          IN IF typed[value] = "" \/ typed[value] \in {old[i] : i \in 1..Len(old)}
               THEN popup'.likedAuthors = old /\ popup'.writes = popup.writes
               ELSE /\ popup'.likedAuthors = old \o <<typed[value]>>
                    /\ popup'.writes = popup.writes \o <<old \o <<typed[value]>>>>]_vars
  /\ [][\A authorName \in RemoveNames : removeLikedAuthor(authorName) =>
          LET old == popup.likedAuthors
              new == popup'.likedAuthors
          IN /\ {new[i] : i \in 1..Len(new)} = {old[i] : i \in 1..Len(old)} \ {authorName}
             /\ Len(new) = Cardinality({old[i] : i \in 1..Len(old)} \ {authorName})
             /\ KeepsOrder(new, old)
             /\ popup'.writes = popup.writes \o <<new>>]_vars
  /\ [][\A ok \in BOOLEAN : HostSetLiked(ok) =>
          likedAuthors' = IF ok THEN popup.writes[1] ELSE likedAuthors]_vars

\* Smith and Lee were added and stored in this order, and the add of " Smith " after
\* them changed nothing
C28_Witness ==
  /\ popup.n = 3
  /\ popup.last = <<"add", " Smith ", <<Smith, Lee>>>>
  /\ popup.likedAuthors = <<Smith, Lee>>
  /\ likedAuthors = <<Smith, Lee>>
  /\ popup.writes = <<>>

\* the first of two names was removed
C28_WitnessRemoved ==
  /\ popup.last = <<"remove", Smith, <<Smith, Lee>>>>
  /\ popup.likedAuthors = <<Lee>>
  /\ likedAuthors = <<Lee>>


\* C29: no handler deletes the binding of an author at a moment when the bound group
\* exists and has a tab in it: not the assignment whose add failed because its own tab
\* was closed, and not the removal whose query was answered before another assignment
\* added a tab to the group.
C29_NoDropOfLiveGroup ==
  [][\A a \in Authors :
       (authorGroups[a] # NoGroup /\ authorGroups'[a] = NoGroup) =>
         ~(authorGroups[a] \in liveGroups /\ MembersOf(authorGroups[a]) # {})]_vars

\* the add of a closed tab was rejected while the bound group lives and has a tab: the
\* catch deletes the binding next
C29_AddOfClosedTab ==
  \E op \in InFlight :
    /\ op.kind = "assign" /\ op.pc = "added" /\ op.res = "err"
    /\ op.tab \notin tabOpen
    /\ authorGroups[op.author] = op.gid
    /\ op.gid \in liveGroups
    /\ MembersOf(op.gid) # {}

\* the query was answered with no tab, a tab was added to the group since: the removal
\* deletes the binding next
C29_QueryOutdated ==
  \E op \in InFlight :
    /\ op.kind = "remove" /\ op.pc = "rqueried" /\ op.cnt = 0
    /\ authorGroups[op.author] = op.gid
    /\ op.gid \in liveGroups
    /\ MembersOf(op.gid) # {}



(***************************************************************************)
(* The handlers of one author under every interleaving, with the           *)
(* scheduling of the browser: every promise is settled, resolved or        *)
(* rejected, and every continuation whose promise is settled is run.       *)
(* Messages and closings arrive when they arrive.                          *)
(***************************************************************************)
\* a step of a handler in progress
HandlerStep ==
  \E op \in InFlight :
    /\ \/ HostTabsUpdate(op) \/ AfterTitle(op)
       \/ HostGroupCreate(op) \/ AfterCreate(op)
       \/ HostGroupUpdate(op) \/ AfterUpdate(op)
       \/ HostGroupAdd(op) \/ AfterAdd(op)
       \/ RemovalEntry(op)
       \/ HostGroupGet(op) \/ AfterGet(op)
       \/ HostTabsQuery(op) \/ AfterQuery(op)
    /\ GFrame

RaceNext ==
  \/ \E t \in Tabs : updateTabTitle(t, BobSmith) /\ GFrame
  \/ \E t \in Tabs : CloseTab(t) /\ GFrame
  \/ \E g \in liveGroups : HostDestroyEmptyGroup(g) /\ GFrame
  \/ HandlerStep

RaceSpec == Init /\ [][RaceNext]_vars /\ WF_vars(HandlerStep)

\* the assignments in flight
Assigning == {op \in InFlight : op.kind = "assign"}

\* C30: an assignment retries at most once and ends.  When the add to the bound group
\* is rejected, the binding is deleted and the creation of a group is started, once;
\* when the creation or the update of the new group is rejected, the rejection is
\* caught and the assignment is over: it does not start again.  Every assignment in
\* progress ends.  This holds with other handlers running in between.
C30_OneRetry ==
  /\ [](\A op \in Assigning :
          /\ op.tries <= 1
          /\ op.pc \in {"title", "titled", "create", "created", "update", "updated",
                        "add", "added"}
          /\ (op.tries = 1 => op.pc \in {"create", "created", "update", "updated"}))
  /\ [][\A op \in Assigning :
          (AfterAdd(op) /\ op.res = "err") =>
            /\ authorGroups'[op.author] = NoGroup
            /\ \E next \in BagToSet(ops') :
                 /\ next.kind = "assign" /\ next.tab = op.tab /\ next.author = op.author
                 /\ next.pc = "create"
                 /\ next.tries = op.tries + 1
            /\ BagCardinality(ops') = BagCardinality(ops)]_vars
  /\ [][\A op \in Assigning :
          ((AfterCreate(op) \/ AfterUpdate(op)) /\ op.res = "err") =>
            /\ ops' = ops (-) SetToBag({op})
            /\ authorGroups' = authorGroups]_vars
  /\ (Assigning # {}) ~> (Assigning = {})

\* the group bound to the author is gone, the add was rejected, and the creation
\* started by the catch was rejected too, the tab having been closed
C30_Witness ==
  \E op \in Assigning :
    /\ op.tries = 1
    /\ op.pc = "created"
    /\ op.res = "err"
    /\ authorGroups[op.author] = NoGroup

\* the creation started by the catch succeeded
C30_WitnessRecovered ==
  \E op \in Assigning :
    /\ op.tries = 1
    /\ op.pc = "updated"
    /\ op.res = "ok"
    /\ tabGroup[op.tab] = op.gid


(***************************************************************************)
(* PromoteSpec: paperCache filled by cacheData as in EvictSpec, and then   *)
(* getCachedData of documents that cleanupCache took out of paperCache and *)
(* that chrome.storage.local still holds.                                  *)
(***************************************************************************)
\* the documents in the storage that paperCache does not hold
OnlyStored == {d \in EvictIds : storage[d] # NoRec /\ ~MemHas(paperCache, d)}
NextOnlyStored == CHOOSE d \in OnlyStored : \A e \in OnlyStored : d <= e

\* getCachedData of the first of them
PromoteRead ==
  /\ OnlyStored # {}
  /\ getCachedData(NextOnlyStored)

PromoteNext ==
  \/ EvictPut /\ CFrame
  \/ PromoteRead /\ CFrame
  \/ \E op \in BagToSet(cops), ok \in BOOLEAN : HostStorageSet(op, ok) /\ CFrame
  \/ \E op \in BagToSet(cops) : AfterStorageSet(op) /\ CFrame
  \/ \E op \in BagToSet(cops), ok \in BOOLEAN : HostStorageGet(op, ok) /\ CFrame
  \/ \E op \in BagToSet(cops), rmOk \in BOOLEAN : AfterStorageGet(op, rmOk) /\ CFrame
  \/ \E op \in BagToSet(cops), ok \in BOOLEAN : HostStorageGetAll(op, ok) /\ CFrame
  \/ \E op \in BagToSet(cops) : AfterStorageGetAll(op) /\ CFrame

\* the calls: one cacheData for each document and one getCachedData for each of the
\* documents that one cleanupCache takes out
PromoteInit ==
  /\ GInit(MemLimit + 1 + MemEvict, 1)
  /\ SIdle
  /\ likedAuthors = <<>>
  /\ storage = [d \in EvictIds |-> NoRec]
  /\ now = 0
  /\ ticks = 0
  /\ CIdle

PromoteSpec == PromoteInit /\ [][PromoteNext]_vars

\* C31 (as claimed): whenever no cache operation is in progress, paperCache holds at
\* most 100 entries, whatever cacheData and getCachedData calls came before.
C31_FastTierBounded ==
  cops = EmptyBag => Len(paperCache) <= MemLimit

\* the 20 documents that the 101st cacheData took out of paperCache have been read
\* back from the storage: paperCache holds 101 entries and nothing is in progress
C31_Reached ==
  /\ cops = EmptyBag
  /\ Len(paperCache) = MemLimit + 1
  /\ cget.done /\ cget.asked /\ cget.id = MemEvict
  /\ cget.mem # NoRec


\* a step at which a getCachedData call returns: at once, the record being in
\* paperCache, or after the storage has answered
GetReturns ==
  /\ cget'.done
  /\ \/ cstarted' = cstarted + 1
     \/ \E op \in BagToSet(cops) : op.kind = "get" /\ op.pc = "got" /\ cops' = CDrop(op)

\* the days since the record was stored, for a record that carries its timestamp
AgeOf(rec) == now - rec.ts

\* C32 (as claimed): getCachedData never returns a record stored more than 30 days
\* ago, whether it comes from paperCache or from chrome.storage.local.
C32_NoExpiredReturned ==
  [][(GetReturns /\ cget'.result # NoRec /\ "ts" \in DOMAIN cget'.result) =>
       AgeOf(cget'.result) <= MaxAgeDays]_vars

\* paperCache holds a record stored more than 30 days ago, put there by a
\* getCachedData when the record was younger
C32_OldInMemory ==
  /\ cops = EmptyBag
  /\ \E d \in DocIds :
       /\ MemHas(paperCache, d)
       /\ "ts" \in DOMAIN MemGet(paperCache, d)
       /\ AgeOf(MemGet(paperCache, d)) > MaxAgeDays


(***************************************************************************)
(* CachedTitleSpec: the two titles of one record.  The content script      *)
(* builds the title of a page's paperData and sends both to the            *)
(* background, which caches the paperData; when the tab has loaded again   *)
(* handleTabUpdate builds a title from the cached record.                  *)
(***************************************************************************)
\* handleTabUpdate: the title it passes to updateTabTitle for cachedData
cachedTitle(cachedData) ==
  LET title == Truncate(cachedData.title) IN
  IF cachedData.category # NoCategory
    THEN "[" \o Split(cachedData.category, ".")[1] \o "] " \o title
    ELSE title

\* tabs.onUpdated with status 'complete' for a tab of the document whose record the
\* background cached with the title update
TabComplete ==
  /\ targetTitle # NoTitle
  /\ ret.n = 0
  /\ ret' = [fn |-> "handleTabUpdate", n |-> 1, cachedData |-> extracted.rec,
             title |-> cachedTitle(extracted.rec)]
  /\ UNCHANGED <<extracted, sel, targetTitle, popup, likedAuthors, storage, now, ticks, watch>>
  /\ UNCHANGED <<gvars, cvars>>

\* the title update of the page, once
FirstTitle == targetTitle = NoTitle /\ BuildTitle

CachedTitleNext == FirstTitle \/ TabComplete

CachedTitleSpec == TitleInit /\ [][CachedTitleNext]_vars

\* C33 (as claimed): the title handleTabUpdate applies from a cached record is the
\* title the content script's updateTabTitle built for that record's title, first
\* author and category.
C33_SameTitle ==
  ret.fn = "handleTabUpdate" => ret.title = newTitle(ret.cachedData)

\* a record with a first author: handleTabUpdate's title has no author in front
C33_NoAuthorPrefix ==
  /\ ret.fn = "handleTabUpdate"
  /\ ret.cachedData.firstAuthor = BobSmith
  /\ ret.cachedData.category = NoCategory
  /\ ret.cachedData.title = SubSeq(LongTitle, 1, 6)
  /\ targetTitle = "Smith: A Very"
  /\ ret.title = "A Very"

\* a category with its tag in parentheses: handleTabUpdate splits the whole text
C33_CategoryText ==
  /\ ret.fn = "handleTabUpdate"
  /\ ret.cachedData.firstAuthor = NoName
  /\ ret.cachedData.category = "Computation and Language (cs.CL)"
  /\ ret.cachedData.title = SubSeq(LongTitle, 1, 6)
  /\ targetTitle = "[cs] A Very"
  /\ ret.title = "[Computation and Language (cs] A Very"

\* without a first author and with a plain category the two titles are the same
C33_Agree ==
  /\ ret.fn = "handleTabUpdate"
  /\ ret.cachedData.firstAuthor = NoName
  /\ ret.cachedData.category = "cs.CL"
  /\ ret.title = targetTitle


(***************************************************************************)
(* HashSpec: the hash loop of generateAuthorColor taken one character at a *)
(* time over strings of UTF-16 code units, beside the fold                 *)
(* hash * 31 + charCode kept to 32 bits at each step.                      *)
(***************************************************************************)
MaxHashLen == 7

\* charCodeAt's values tried: the least, "a", "b", "c" and the greatest
HashCodes == {0, 97, 98, 99, 65535}

\* hash * 31 + char in 32 bits
FoldStep(hash, char) ==
  LET lo == hash.lo * 31 + char
      hi == hash.hi * 31 + (lo \div Half)
  IN [hi |-> hi % Half, lo |-> lo % Half]

NoHash == [hi |-> 0, lo |-> 0]

\* one more turn of the loop, for a character with code char
HashChar(char) ==
  /\ ret.n < MaxHashLen
  /\ LET before == IF ret.fn = "hash" THEN ret
                   ELSE [hash |-> NoHash, fold |-> NoHash, codes |-> <<>>]
     IN ret' = [fn |-> "hash", n |-> ret.n + 1,
                codes |-> Append(before.codes, char),
                hash |-> HashStep(before.hash, char),
                fold |-> FoldStep(before.fold, char),
                shifted |-> Signed(Shl5(before.hash)),
                from |-> Signed(before.hash)]
  /\ UNCHANGED <<extracted, sel, targetTitle, popup, likedAuthors, storage, now, ticks, watch>>
  /\ UNCHANGED <<gvars, cvars>>

HashNext == \E char \in HashCodes : HashChar(char)

HashSpec == HelperInit /\ [][HashNext]_vars

\* C34: after every turn of the loop, ((hash << 5) - hash) + charCode brought to 32
\* bits is the 32-bit signed value of hash * 31 + charCode folded over the same
\* characters, each step of the fold kept to 32 bits.
C34_HashIsFold31 ==
  ret.fn = "hash" =>
    /\ ret.hash = ret.fold
    /\ ToInt32(ret.hash) = ToInt32(ret.fold)
    /\ ret.hash.hi \in 0..(Half - 1) /\ ret.hash.lo \in 0..(Half - 1)

\* the shift pushed bits out and gave a negative number from a positive one, and the
\* difference, below the least 32-bit integer, came back as a positive hash
C34_Witness ==
  /\ ret.fn = "hash"
  /\ ret.from.hi > 0
  /\ ret.shifted.hi < 0
  /\ ret.shifted.hi - ret.from.hi < -(Half \div 2)
  /\ ToInt32(ret.hash) > 0

\* a negative hash goes in and a negative hash comes out
C34_WitnessNegative ==
  /\ ret.fn = "hash"
  /\ ret.from.hi < 0
  /\ ToInt32(ret.hash) < 0
  /\ ret.n = MaxHashLen

\* "abc" hashes to 96354
C34_WitnessAbc ==
  ret.fn = "hash" /\ ret.codes = <<97, 98, 99>> /\ ToInt32(ret.hash) = 96354


\* C35: when chrome.storage.local.get('likedAuthors') fails, getPreferredAuthor goes on
\* with an empty liked list and returns, for a non-empty author list, its first
\* element.
C35_UnreadableListIsEmpty ==
  (sel.called /\ ~sel.readOk) =>
    /\ sel.liked = <<>>
    /\ sel.authors # <<>> => sel.result = sel.authors[1]
    /\ sel.authors = <<>> => sel.result = NoName

\* the stored list names the second author of the page, and the read failed
C35_Witness ==
  /\ sel.called /\ ~sel.readOk
  /\ Len(sel.authors) >= 2
  /\ likedAuthors # <<>>
  /\ AuthorMatches(sel.authors[2], likedAuthors[1])
  /\ ~AuthorMatches(sel.authors[1], likedAuthors[1])
  /\ sel.result = sel.authors[1]


(***************************************************************************)
(* ClearSpec: the popup's clearCache over the storage and the background's *)
(* paperCache.  Abstract pages are loaded and their records cached by the  *)
(* background; the popup is opened, Clear Cache is clicked, and the popup  *)
(* may be closed at any await, which ends its script there.                *)
(***************************************************************************)
\* clicks on clear-cache-btn
MaxClears == 2

\* the keys of allData that start with 'arxiv_'
StoredDocs == {d \in DocIds : storage[d] # NoRec}

\* clearCache up to chrome.storage.local.get(null)
clearCache ==
  /\ popup.open
  /\ popup.clear.pc = "idle"
  /\ popup.n < MaxClears
  /\ cops = EmptyBag
  /\ popup' = [popup EXCEPT !.n = @ + 1,
                            !.clear = [pc |-> "get", liked |-> likedAuthors,
                                       ok |-> TRUE, arxivKeys |-> {}]]
  /\ UNCHANGED likedAuthors
  /\ PopupFrame

\* chrome.storage.local.get(null) answers with what is stored, or rejects
HostClearGet(ok) ==
  /\ popup.clear.pc = "get"
  /\ popup' = [popup EXCEPT !.clear.pc = "got", !.clear.ok = ok,
                            !.clear.arxivKeys = IF ok THEN StoredDocs ELSE {}]
  /\ UNCHANGED likedAuthors
  /\ PopupFrame

\* clearCache is over: what it did is in popup.last
ClearDone(outcome) ==
  [popup EXCEPT !.clear = NoClearing,
                !.last = <<"clearCache", outcome, popup.clear.liked>>]

\* after the await: with no key 'No cache to clear' is shown and nothing else is done;
\* a rejection ends in the catch; otherwise chrome.storage.local.remove(arxivKeys)
AfterClearGet ==
  /\ popup.clear.pc = "got"
  /\ popup' = IF ~popup.clear.ok THEN ClearDone("failed")
              ELSE IF popup.clear.arxivKeys = {} THEN ClearDone("nothing")
              ELSE [popup EXCEPT !.clear.pc = "remove"]
  /\ UNCHANGED likedAuthors
  /\ PopupFrame

\* chrome.storage.local.remove(arxivKeys) removes the keys, or rejects
HostClearRemove(ok) ==
  /\ popup.clear.pc = "remove"
  /\ storage' = IF ok THEN [d \in DocIds |->
                              IF d \in popup.clear.arxivKeys THEN NoRec ELSE storage[d]]
                ELSE storage
  /\ popup' = [popup EXCEPT !.clear.pc = "removed", !.clear.ok = ok]
  /\ UNCHANGED <<likedAuthors, now, ticks, extracted, sel, targetTitle, ret, watch>>
  /\ UNCHANGED <<gvars, cvars>>

\* after the await: 'clearMemoryCache' is sent, and loadStats sends 'getStats' and
\* waits for its answer; a rejection ends in the catch
AfterClearRemove ==
  /\ popup.clear.pc = "removed"
  /\ popup' = IF popup.clear.ok THEN [popup EXCEPT !.clear.pc = "sent"]
              ELSE ClearDone("failed")
  /\ UNCHANGED likedAuthors
  /\ PopupFrame

\* the background's listener on 'clearMemoryCache': this.paperCache.clear()
clearMemoryCache ==
  /\ popup.clear.pc = "sent"
  /\ paperCache' = <<>>
  /\ popup' = [popup EXCEPT !.clear.pc = "stats"]
  /\ UNCHANGED <<others, cops, cstarted, cget, cput, cclean>>
  /\ UNCHANGED <<likedAuthors, storage, now, ticks, extracted, sel, targetTitle, ret, watch>>
  /\ UNCHANGED gvars

\* the background answers 'getStats', which it got after 'clearMemoryCache'; loadStats
\* returns and 'Cache Cleared!' is shown
AfterLoadStats ==
  /\ popup.clear.pc = "stats"
  /\ popup' = ClearDone("cleared")
  /\ UNCHANGED likedAuthors
  /\ PopupFrame

\* no clearCache is in progress
ClearIdle == popup.clear.pc = "idle"

ClearNext ==
  \/ ClearIdle /\ \E page \in TierPages : AbsPage(1, page, TRUE) /\ SFrame
  \/ ClearIdle /\ SendUpdate /\ CFrame
  \/ \E op \in BagToSet(cops), ok \in BOOLEAN : HostStorageSet(op, ok) /\ CFrame
  \/ \E op \in BagToSet(cops) : AfterStorageSet(op) /\ CFrame
  \/ \E op \in BagToSet(cops), ok \in BOOLEAN : HostStorageGetAll(op, ok) /\ CFrame
  \/ \E op \in BagToSet(cops) : AfterStorageGetAll(op) /\ CFrame
  \/ \E readOk \in BOOLEAN : OpenPopup(readOk)
  \/ ClosePopup
  \/ clearCache
  \/ \E ok \in BOOLEAN : HostClearGet(ok)
  \/ AfterClearGet
  \/ \E ok \in BOOLEAN : HostClearRemove(ok)
  \/ AfterClearRemove
  \/ clearMemoryCache
  \/ AfterLoadStats

\* the user's liked list is stored; nothing else is
ClearInit ==
  /\ GInit(TierOps, 1)
  /\ SIdle
  /\ likedAuthors = <<Smith>>
  /\ storage = [d \in DocIds |-> NoRec]
  /\ now = 0
  /\ ticks = 0
  /\ CIdle

ClearSpec == ClearInit /\ [][ClearNext]_vars

\* a step at which a clearCache ends other than in its catch
ClearCompletes ==
  /\ ~ClearIdle
  /\ popup'.clear.pc = "idle"
  /\ popup'.open
  /\ popup'.last[2] # "failed"

\* C36 (as claimed): when clearCache has completed, the storage holds no document
\* record and paperCache is empty, whatever the two held before, and the stored liked
\* list is the one stored before.
C36_ClearEmptiesBothTiers ==
  [][ClearCompletes =>
       /\ \A d \in DocIds : storage'[d] = NoRec
       /\ paperCache' = <<>>
       /\ likedAuthors' = popup'.last[3]]_vars

\* a clearCache ended with 'No cache to clear' while paperCache held a record: an
\* earlier clearCache had removed the stored records when the popup was closed,
\* before it sent 'clearMemoryCache'
C36_MemoryLeft ==
  /\ popup.open /\ ClearIdle
  /\ popup.last = <<"clearCache", "nothing", <<Smith>>>>
  /\ popup.n = 2
  /\ paperCache # <<>>
  /\ \A d \in DocIds : storage[d] = NoRec
  /\ cops = EmptyBag

\* a clearCache that found records: both tiers are empty and the liked list is there
C36_BothCleared ==
  /\ popup.open /\ ClearIdle
  /\ popup.last = <<"clearCache", "cleared", <<Smith>>>>
  /\ popup.clear = NoClearing
  /\ paperCache = <<>>
  /\ \A d \in DocIds : storage[d] = NoRec
  /\ likedAuthors = <<Smith>>
  /\ cput.done


(***************************************************************************)
(* WatchSpec: the page's document.title under the content script's         *)
(* updateTabTitle, run again with another title when the page is read      *)
(* again.  Each run sets the title, replaces the interval watcher and adds *)
(* a mutation observer on the title element; no observer is ever           *)
(* disconnected.  A change of the title queues a record for every observer *)
(* there is; the observers are called in turn, in the order of their       *)
(* making, before any timer or other task runs.                            *)
(***************************************************************************)
\* runs of updateTabTitle in the page
MaxRuns == 2
\* changes of the title by the page itself
MaxPageSets == 1
\* if (checks >= 150)
WatchChecks == 150

\* the titles updateTabTitle builds for the page: the placeholder and the paper's
WatchTitles == {"ArXiv 2301.00001", "Smith: Paper"}
\* the title the page gives itself
PageTitle == "arxiv.org"

\* setTitleAggressively(newTitle): the title element changes, which every observer
\* that observes it is told
setTitleAggressively(w, title) ==
  [w EXCEPT !.title = title,
            !.observers = [i \in DOMAIN w.observers |->
                             [w.observers[i] EXCEPT !.pending = TRUE]]]

\* clearInterval(id)
clearInterval(timers, id) ==
  LET Other(timer) == timer.id # id IN SelectSeq(timers, Other)

\* startTitleWatcher(targetTitle): the interval of this.titleWatcher is cleared, an
\* observer for targetTitle is added, and a new interval is set
startTitleWatcher(w, target) ==
  [w EXCEPT !.observers = Append(@, [target |-> target, pending |-> FALSE]),
            !.timers = Append(clearInterval(@, w.titleWatcher),
                              [id |-> w.nextTimer, target |-> target, checks |-> 0]),
            !.titleWatcher = w.nextTimer,
            !.nextTimer = @ + 1]

\* an observer has records it was not called with yet
RecordsQueued == \E i \in DOMAIN watch.observers : watch.observers[i].pending

WatchFrame ==
  /\ UNCHANGED <<extracted, sel, ret, popup, likedAuthors, storage, now, ticks>>
  /\ UNCHANGED <<gvars, cvars>>

\* updateTabTitle from this.targetTitle = newTitle on
RunTitle(title) ==
  /\ watch.runs < MaxRuns
  /\ ~RecordsQueued
  /\ targetTitle' = title
  /\ watch' = [startTitleWatcher(setTitleAggressively(watch, title), title)
                 EXCEPT !.runs = @ + 1]
  /\ WatchFrame

\* the observer called next: the first with records from the turn on, or from the
\* start when there is none
NextObserver ==
  LET queued == {i \in DOMAIN watch.observers : watch.observers[i].pending}
      later == {i \in queued : i >= watch.turn}
  IN IF later # {} THEN CHOOSE i \in later : \A j \in later : i <= j
     ELSE CHOOSE i \in queued : \A j \in queued : i <= j

\* the callback of an observer of the title element: a title other than its
\* targetTitle is set back
ObserverCalled ==
  /\ RecordsQueued
  /\ \E i \in {NextObserver} :
       LET w1 == [watch EXCEPT !.observers[i].pending = FALSE, !.turn = i + 1]
           target == watch.observers[i].target
       IN watch' = IF watch.title # target THEN setTitleAggressively(w1, target) ELSE w1
  /\ UNCHANGED targetTitle
  /\ WatchFrame

\* the interval's callback: one more check; a title other than targetTitle is set
\* back; after 150 checks clearInterval(this.titleWatcher)
WatcherCheck(k) ==
  /\ ~RecordsQueued
  /\ LET timer == watch.timers[k]
         checks == timer.checks + 1
         w1 == [watch EXCEPT !.timers[k].checks = checks]
         w2 == IF watch.title # timer.target
                 THEN setTitleAggressively(w1, timer.target) ELSE w1
     IN watch' = IF checks >= WatchChecks
                   THEN [w2 EXCEPT !.timers = clearInterval(@, watch.titleWatcher)]
                   ELSE w2
  /\ UNCHANGED targetTitle
  /\ WatchFrame

\* the page sets its own title
PageSetsTitle ==
  /\ watch.runs > 0
  /\ watch.sets < MaxPageSets
  /\ ~RecordsQueued
  /\ watch' = [setTitleAggressively(watch, PageTitle) EXCEPT !.sets = @ + 1]
  /\ UNCHANGED targetTitle
  /\ WatchFrame

WatcherChecks == \E k \in DOMAIN watch.timers : WatcherCheck(k)

WatchNext ==
  \/ \E title \in WatchTitles : RunTitle(title)
  \/ ObserverCalled
  \/ WatcherChecks
  \/ PageSetsTitle

WatchInit == GInit(0, 0) /\ StIdle /\ SIdle /\ CIdle

\* the browser calls every observer that has records, and lets every interval fire
WatchSpec ==
  WatchInit /\ [][WatchNext]_vars /\ WF_vars(ObserverCalled) /\ WF_vars(WatcherChecks)

\* C37 (as claimed): once updateTabTitle has run more than once, the title of the
\* document settles at the title of the last run; what earlier runs installed does not
\* go on setting it back; there is never more than one interval, and none makes more
\* than 150 checks.
C37_TitleSettles ==
  /\ <>[](watch.runs >= 2 => watch.title = targetTitle)
  /\ [](Len(watch.timers) <= 1)
  /\ [](\A k \in DOMAIN watch.timers : watch.timers[k].checks <= WatchChecks)

\* two runs with different titles: the observer of the first run has set its title
\* back, and the observer of the second run is about to be called
C37_SetBack ==
  /\ watch.runs = 2
  /\ Len(watch.observers) = 2
  /\ watch.observers[1].target # watch.observers[2].target
  /\ targetTitle = watch.observers[2].target
  /\ watch.title = watch.observers[1].target
  /\ watch.observers[2].pending

\* one run: the page changed the title and the observer put the target back
C37_Restored ==
  /\ watch.runs = 1
  /\ watch.sets = 1
  /\ ~RecordsQueued
  /\ watch.title = targetTitle
  /\ Len(watch.timers) = 1


\* C38: isAuthorMatch gives the same answer with its two names exchanged, and matches
\* every name with itself; a liked name that normalizes to the empty text, as "." does,
\* matches every author's name.  It is not transitive: "Bob Smith" matches "Smith" and
\* "Smith" matches "John Smith", but "Bob Smith" does not match "John Smith".
C38_MatchSymmetricReflexive ==
  ret.fn = "match" =>
    /\ ret.out = isAuthorMatch(ret.liked, ret.full)
    /\ (ret.full = ret.liked => ret.out)
    /\ (Normalize(Chars[ret.liked]) = <<>> => ret.out)
    /\ (ret.liked = Dot => ret.out)
    /\ (ret.full = BobSmith /\ ret.liked = Smith =>
          /\ ret.out
          /\ isAuthorMatch(Smith, JohnSmith)
          /\ ~isAuthorMatch(BobSmith, JohnSmith))

\* the liked name "." matches an author it has nothing in common with
C38_Witness ==
  /\ ret.fn = "match"
  /\ ret.full = AliceJohnson
  /\ ret.liked = Dot
  /\ ret.out

\* a match of names that differ, with a third name the liked name matches and the
\* author's name does not
C38_WitnessNotTransitive ==
  /\ ret.fn = "match"
  /\ ret.full # ret.liked
  /\ ret.out
  /\ Normalize(Chars[ret.liked]) # <<>>
  /\ \E third \in MatchNames :
       /\ isAuthorMatch(ret.liked, third)
       /\ Normalize(Chars[third]) # <<>>
       /\ ~isAuthorMatch(ret.full, third)

\* a name matched with itself
C38_WitnessSelf ==
  /\ ret.fn = "match"
  /\ ret.full = SmithJ
  /\ ret.liked = SmithJ
  /\ ret.out


\* C39: no name parseAuthors returns has a comma in it, whatever the text; so for a
\* name out of a parsed list getShortAuthorName never takes its "Last, First" branch,
\* and shortens a name of three tokens or more to its last token.
C39_NoCommaInParsed ==
  ret.fn = "parse" =>
    \A i \in DOMAIN ret.out :
      LET name == ret.out[i]
          spaces == {j \in 1..Len(name) : CharAt(name, j) = " "}
          last == IF spaces = {} THEN 0 ELSE CHOOSE j \in spaces : \A l \in spaces : l <= j
      IN /\ \A j \in 1..Len(name) : CharAt(name, j) # ","
         /\ ~ret.lastFirst[i]
         /\ (Cardinality(spaces) >= 2 => ret.short[i] = SubSeq(name, last + 1, Len(name)))

\* a text with commas, whose last name has three tokens and is shortened to the third
C39_Witness ==
  /\ ret.fn = "parse"
  /\ ret.arg = " Alice Johnson, Mary Ann  Lee"
  /\ ret.out = <<AliceJohnson, "Mary Ann Lee">>
  /\ ret.short = <<Johnson, Lee>>
  /\ ret.lastFirst = <<FALSE, FALSE>>

====
